---- MODULE Spec2Model ----
(***************************************************************************)
(* Model of the pseudospectrum utilities of Elemental                      *)
(* (include/elemental/lapack-like/props/Pseudospectrum/Util.hpp) and of    *)
(* the chunked driver (examples/lapack-like/                               *)
(* ChunkedTriangularPseudospectrum.cpp).                                   *)
(*                                                                         *)
(* Indices are 1-based here and 0-based in the source: position j of the   *)
(* source is position j+1 of the model, also inside a preimage.            *)
(***************************************************************************)
EXTENDS Integers, Sequences, FiniteSets, TLC

(***************************************************************************)
(* Bounds of the model.                                                    *)
(***************************************************************************)
\* number of shifts of a chunk run
NumShifts == 2
\* largest maxIts a chunk run is started with
MaxMaxIts == 3
\* length of the arrays given to the pure array functions
MaxLen == 3
\* number of processes of the [VR,STAR] distribution
GridSize == 2
\* largest number of samples along an axis of the driver
MaxSamples == 4

(***************************************************************************)
(* Real numbers (Base<F>, IEEE arithmetic): a NaN, the two infinities, or  *)
(* a finite rational n/d with d > 0.  Rounding is not modelled.            *)
(***************************************************************************)
Rat(n, d) == [k |-> "fin", n |-> n, d |-> d]
Fin(n) == Rat(n, 1)
NaN == [k |-> "nan", n |-> 0, d |-> 1]
PosInf == [k |-> "pinf", n |-> 0, d |-> 1]
NegInf == [k |-> "ninf", n |-> 0, d |-> 1]

IsNan(a) == a.k = "nan"
IsInf(a) == a.k \in {"pinf", "ninf"}
IsFinite(a) == a.k = "fin"

\* a < b; every comparison with a NaN is false
Less(a, b) ==
    CASE IsNan(a) \/ IsNan(b) -> FALSE
      [] a.k = "pinf" -> FALSE
      [] a.k = "ninf" -> b.k # "ninf"
      [] b.k = "pinf" -> TRUE
      [] b.k = "ninf" -> FALSE
      [] OTHER -> a.n * b.d < b.n * a.d

\* a == b
EqV(a, b) ==
    CASE IsNan(a) \/ IsNan(b) -> FALSE
      [] IsInf(a) \/ IsInf(b) -> a.k = b.k
      [] OTHER -> a.n * b.d = b.n * a.d

Leq(a, b) == Less(a, b) \/ EqV(a, b)
Geq(a, b) == Leq(b, a)
Gt(a, b) == Less(b, a)

AbsInt(n) == IF n < 0 THEN -n ELSE n

\* Abs(a)
AbsV(a) ==
    CASE IsNan(a) -> NaN
      [] IsInf(a) -> PosInf
      [] OTHER -> Rat(AbsInt(a.n), a.d)

\* a - b
SubV(a, b) ==
    CASE IsNan(a) \/ IsNan(b) -> NaN
      [] IsInf(a) /\ a.k = b.k -> NaN
      [] IsInf(a) -> a
      [] b.k = "pinf" -> NegInf
      [] b.k = "ninf" -> PosInf
      [] OTHER -> Rat(a.n * b.d - b.n * a.d, a.d * b.d)

\* a / b for b >= 0 (the only divisions of the code have a divisor Abs(.))
DivV(a, b) ==
    CASE IsNan(a) \/ IsNan(b) -> NaN
      [] IsInf(a) /\ IsInf(b) -> NaN
      [] IsInf(a) -> a
      [] IsInf(b) -> Fin(0)
      [] b.n = 0 /\ a.n = 0 -> NaN
      [] b.n = 0 -> IF a.n > 0 THEN PosInf ELSE NegInf
      [] OTHER -> Rat(a.n * b.d, a.d * b.n)

\* NormCap<Real>() = 1/MachineEpsilon, scaled down to a small integer
NormCap == 4
NormCapV == Fin(NormCap)

(***************************************************************************)
(* CapEstimates (Util.hpp 513-526)                                         *)
(***************************************************************************)
\* one iteration of the loop: lines 521-524
CapEntry(alpha) ==
    IF IsNan(alpha) \/ Geq(alpha, NormCapV) THEN NormCapV ELSE alpha

CapEstimates(activeEsts) ==
    [j \in 1..Len(activeEsts) |-> CapEntry(activeEsts[j])]

(***************************************************************************)
(* FindConverged (Util.hpp 535-566)                                        *)
(***************************************************************************)
\* faulty variant: the relative change is compared with < instead of <=
IsConverged_Strict(lastEst, currEst, maxDiff) ==
    IF Geq(currEst, NormCapV)
    THEN TRUE
    ELSE IF Gt(AbsV(currEst), Fin(0))
         THEN Less(DivV(AbsV(SubV(lastEst, currEst)), AbsV(currEst)), maxDiff)
         ELSE FALSE

\* faulty variant: every shift passes the test
IsConverged_Always(lastEst, currEst, maxDiff) == TRUE

\* faulty variant: an estimate that is not above 0 in magnitude passes
IsConverged_ZeroPasses(lastEst, currEst, maxDiff) ==
    IF Geq(currEst, NormCapV)
    THEN TRUE
    ELSE IF Gt(AbsV(currEst), Fin(0))
         THEN Leq(DivV(AbsV(SubV(lastEst, currEst)), AbsV(currEst)), maxDiff)
         ELSE TRUE

\* lines 554-558: the value of `converged'
IsConverged(lastEst, currEst, maxDiff) ==
    IF Geq(currEst, NormCapV)
    THEN TRUE
    ELSE IF Gt(AbsV(currEst), Fin(0))
         THEN Leq(DivV(AbsV(SubV(lastEst, currEst)), AbsV(currEst)), maxDiff)
         ELSE FALSE

\* faulty variant: the counter is updated whatever the test finds
CountUpdate_Always(converged, count) == count + 1

\* faulty variant: the counter is also updated before the test
CountUpdate_Twice(converged, count) ==
    IF converged THEN count + 1 ELSE count + 2

\* lines 560-563: the counter of one shift after its test
CountUpdate(converged, count) ==
    IF converged THEN count ELSE count + 1

\* the returned activeConverged and the updated activeItCounts; the loop
\* runs over activeEsts.Height() entries and its iterations are independent
FindConverged(lastActiveEsts, activeEsts, activeItCounts, maxDiff) ==
    LET numActiveShifts == Len(activeEsts)
        converged == [j \in 1..numActiveShifts |->
                        IsConverged(lastActiveEsts[j], activeEsts[j], maxDiff)]
    IN  [activeConverged |->
            [j \in 1..numActiveShifts |-> IF converged[j] THEN 1 ELSE 0],
         activeItCounts |->
            [j \in 1..Len(activeItCounts) |->
                IF j <= numActiveShifts
                THEN CountUpdate(converged[j], activeItCounts[j])
                ELSE activeItCounts[j]]]

\* ZeroNorm: the number of nonzero entries
RECURSIVE ZeroNorm(_)
ZeroNorm(v) ==
    IF Len(v) = 0 THEN 0
    ELSE (IF v[1] # 0 THEN 1 ELSE 0) + ZeroNorm(Tail(v))

(***************************************************************************)
(* RestoreOrdering (Util.hpp 79-146)                                       *)
(***************************************************************************)
\* faulty variant: the loop reads the array it is writing instead of the copy
RECURSIVE RestoreLoop_NoCopy(_, _, _, _)
RestoreLoop_NoCopy(preimage, x, xCopy, j) ==
    IF j > Len(preimage) THEN x
    ELSE RestoreLoop_NoCopy(preimage, [x EXCEPT ![preimage[j]] = x[j]], xCopy, j + 1)

\* faulty variant: the loop reads the copy one position ahead of j
RECURSIVE RestoreLoop_ReadNext(_, _, _, _)
RestoreLoop_ReadNext(preimage, x, xCopy, j) ==
    IF j > Len(preimage) THEN x
    ELSE RestoreLoop_ReadNext(preimage,
            [x EXCEPT ![preimage[j]] = xCopy[(j % Len(xCopy)) + 1]], xCopy, j + 1)

\* the loop of lines 87-91 from iteration j on: x is written, xCopy is read
RECURSIVE RestoreLoop(_, _, _, _)
RestoreLoop(preimage, x, xCopy, j) ==
    IF j > Len(preimage) THEN x
    ELSE RestoreLoop(preimage, [x EXCEPT ![preimage[j]] = xCopy[j]], xCopy, j + 1)

\* RestoreOrdering( preimage, x ), lines 79-92
RestoreOrdering(preimage, x) == RestoreLoop(preimage, x, x, 1)

\* faulty variant: xCopy is missing, x is read while it is written
RestoreOrdering2_NoCopyX(preimage, x, y) ==
    [x |-> RestoreLoop_NoCopy(preimage, x, x, 1),
     y |-> RestoreLoop(preimage, y, y, 1)]

\* faulty variant: yCopy is missing, y is read while it is written
RestoreOrdering2_NoCopyY(preimage, x, y) ==
    [x |-> RestoreLoop(preimage, x, x, 1),
     y |-> RestoreLoop_NoCopy(preimage, y, y, 1)]

\* RestoreOrdering( preimage, x, y ), lines 94-109: both copies are taken
\* before the loop, and each iteration writes x and y at the same dest
RestoreOrdering2(preimage, x, y) ==
    [x |-> RestoreLoop(preimage, x, x, 1),
     y |-> RestoreLoop(preimage, y, y, 1)]

(***************************************************************************)
(* The [VR,STAR] distribution of a column vector over GridSize processes:  *)
(* row i (0-based) is stored by process i mod GridSize at local row        *)
(* i div GridSize.  A distributed vector is a function from the process to *)
(* its local rows.                                                         *)
(***************************************************************************)
Procs == 0..(GridSize - 1)

LocalHeight(m, p) == Cardinality({i \in 0..(m - 1) : i % GridSize = p})

Distribute(x) ==
    [p \in Procs |->
        [iLoc \in 1..LocalHeight(Len(x), p) |-> x[(iLoc - 1) * GridSize + p + 1]]]

RECURSIVE SumHeights(_, _)
SumHeights(X, p) ==
    IF p < 0 THEN 0 ELSE Len(X[p]) + SumHeights(X, p - 1)

\* the [STAR,STAR] copy: every process holds every row
Gather(X) ==
    [i \in 1..SumHeights(X, GridSize - 1) |->
        X[(i - 1) % GridSize][((i - 1) \div GridSize) + 1]]

\* X.Set( i, 0, v ): the owner of row i stores v
DistSet(X, i, v) ==
    [X EXCEPT ![(i - 1) % GridSize][((i - 1) \div GridSize) + 1] = v]

\* the loop of lines 121-125 from iteration j on
RECURSIVE RestoreLoopDist(_, _, _, _)
RestoreLoopDist(preimageCopy, X, xCopy, j) ==
    IF j > Len(preimageCopy) THEN X
    ELSE RestoreLoopDist(preimageCopy,
                         DistSet(X, preimageCopy[j], xCopy[j]), xCopy, j + 1)

\* RestoreOrdering on [VR,STAR] operands, lines 111-126
RestoreOrderingDist(preimage, X) ==
    RestoreLoopDist(Gather(preimage), X, Gather(X), 1)

\* RestoreOrdering on two [VR,STAR] operands, lines 128-146
RestoreOrdering2Dist(preimage, X, Y) ==
    [x |-> RestoreLoopDist(Gather(preimage), X, Gather(X), 1),
     y |-> RestoreLoopDist(Gather(preimage), Y, Gather(Y), 1)]

(***************************************************************************)
(* RestoreOrdering on one array, iteration by iteration.  The state of a   *)
(* call is the preimage, x, the copy of x and the loop index j; the        *)
(* distributed variant also has the copy of the preimage, and its preimage *)
(* and x are distributed.                                                  *)
(***************************************************************************)
\* lines 85 and 117-118: the copies taken before the loop
RestoreEntry(variant, preimage, x) ==
    IF variant = "RestoreOrdering"
    THEN [preimage |-> preimage, preimageCopy |-> preimage,
          x |-> x, xCopy |-> x, j |-> 1]
    ELSE [preimage |-> Distribute(preimage),
          preimageCopy |-> Gather(Distribute(preimage)),
          x |-> Distribute(x), xCopy |-> Gather(Distribute(x)), j |-> 1]

\* faulty variant: the iteration reads x, which it is writing, not the copy
RestoreIteration_ReadsX(variant, st) ==
    LET dest == st.preimageCopy[st.j]
    IN  IF variant = "RestoreOrdering"
        THEN [st EXCEPT !.x = [st.x EXCEPT ![dest] = st.x[st.j]],
                        !.j = st.j + 1]
        ELSE [st EXCEPT !.x = DistSet(st.x, dest, Gather(st.x)[st.j]),
                        !.j = st.j + 1]

\* lines 89-90 and 123-124: dest = preimage.Get(j,0);
\* x.Set( dest, 0, xCopy.Get(j,0) )
RestoreIteration(variant, st) ==
    LET dest == st.preimageCopy[st.j]
    IN  IF variant = "RestoreOrdering"
        THEN [st EXCEPT !.x = [st.x EXCEPT ![dest] = st.xCopy[st.j]],
                        !.j = st.j + 1]
        ELSE [st EXCEPT !.x = DistSet(st.x, dest, st.xCopy[st.j]),
                        !.j = st.j + 1]

(***************************************************************************)
(* ReshapeIntoGrid, sequential (Util.hpp 45-62): X is resized to realSize  *)
(* x imagSize with leading dimension realSize and the buffer of x is       *)
(* copied into it, so that X(i,j) = x(i + j*realSize).  A grid is a        *)
(* function of the row i to the sequence of the row's entries.             *)
(***************************************************************************)
ReshapeIntoGrid(realSize, imagSize, x) ==
    [i \in 1..realSize |->
        [j \in 1..imagSize |-> x[(i - 1) + (j - 1) * realSize + 1]]]

\* what a cell of a resized grid holds before it is written
Indeterminate == [k |-> "indeterminate", n |-> 0, d |-> 1]

\* lines 58-59: MemCopy moves entry k of x, k < realSize*imagSize, to entry
\* k of the buffer of X, which has the leading dimension realSize: entry k
\* is the cell of row k mod realSize and column k div realSize
ReshapeCopies(realSize, imagSize) ==
    {[src |-> k, i |-> k % realSize, j |-> k \div realSize] :
        k \in 0..(realSize * imagSize - 1)}

\* lines 70-75: for j < realSize, View( X, 0, j, imagSize, 1 ) is assigned
\* LockedView( x, j*imagSize, 0, imagSize, 1 ): entry j*imagSize + i of x
\* goes to the cell of row i and column j, i < imagSize
ReshapeCopiesDist(realSize, imagSize) ==
    {[src |-> j * imagSize + i, i |-> i, j |-> j] :
        i \in 0..(imagSize - 1), j \in 0..(realSize - 1)}

\* lines 57 and 69: X is resized to realSize rows and imagSize columns
InGrid(a, realSize, imagSize) ==
    a.i >= 0 /\ a.i < realSize /\ a.j >= 0 /\ a.j < imagSize

InVector(a, realSize, imagSize) == a.src >= 0 /\ a.src < realSize * imagSize

\* the grid after the copies that fall into it
GridOf(copies, realSize, imagSize, x) ==
    [i \in 1..realSize |->
        [j \in 1..imagSize |->
            LET into == {a \in copies : a.i = i - 1 /\ a.j = j - 1}
            IN  IF into = {} THEN Indeterminate
                ELSE x[(CHOOSE a \in into : TRUE).src + 1]]]

\* the outcomes of a reshape: the grid on return where every copy is inside
\* the vector and the grid; else the behaviour is undefined: a fault, or a
\* return with the grid holding the copies that fell into it
ReshapeOutcomes(copies, realSize, imagSize, x) ==
    LET X == GridOf({a \in copies : InVector(a, realSize, imagSize)},
                    realSize, imagSize, x)
        defined == \A a \in copies : /\ InGrid(a, realSize, imagSize)
                                     /\ InVector(a, realSize, imagSize)
    IN  {[error |-> "none", X |-> X, copies |-> copies]}
        \cup (IF defined THEN {}
              ELSE {[error |-> "fault", X |-> X, copies |-> copies]})

\* lines 45-62
ReshapeIntoGridSeq(realSize, imagSize, x) ==
    ReshapeOutcomes(ReshapeCopies(realSize, imagSize), realSize, imagSize, x)

\* lines 64-77
ReshapeIntoGridDist(realSize, imagSize, x) ==
    ReshapeOutcomes(ReshapeCopiesDist(realSize, imagSize), realSize, imagSize, x)

(***************************************************************************)
(* Snapshot, sequential (Util.hpp 611-654).  The writer is outside the     *)
(* utilities: a call of Write is kept as a record of its arguments.        *)
(***************************************************************************)
\* Log(alpha), kept symbolic
LogV(alpha) == [k |-> "log", of |-> alpha]

\* EntrywiseMap( estMap, Log ), line 643
EntrywiseLog(estMap) ==
    [i \in DOMAIN estMap |-> [j \in DOMAIN estMap[i] |-> LogV(estMap[i][j])]]

\* faulty variant: the iterations are numbered from 0
SnapName_ZeroBased(base, numIts) == <<base, "-", numIts - 1>>

\* os << base << "-" << numIts, lines 636-637 and 644-645
SnapName(base, numIts) == <<base, "-", numIts>>

\* faulty variant: a channel whose frequency is not positive is not skipped
SaveDue_NoFreqTest(freq, saveCount) == saveCount >= freq

\* faulty variant: the counter has to exceed the frequency
SaveDue_Late(freq, saveCount) == freq > 0 /\ saveCount > freq

\* lines 623 and 624: numSave, imgSave
SaveDue(freq, saveCount) == freq > 0 /\ saveCount >= freq

\* lines 629-632: the grid handed to the writer
SnapGrid(estimates, preimage, deflate, realSize, imagSize) ==
    LET invNorms == IF deflate THEN RestoreOrdering(preimage, estimates)
                               ELSE estimates
    IN  ReshapeIntoGrid(realSize, imagSize, invNorms)

\* faulty variant: the grid is logged before the numeric channel writes it
NumWrites_Logged(estMap, numIts, numBase) ==
    << [grid |-> EntrywiseLog(estMap), name |-> SnapName(numBase, numIts),
        format |-> "numFormat"] >>

\* lines 634-640: the calls of Write of the numeric channel
NumWrites(estMap, numIts, numBase) ==
    << [grid |-> estMap, name |-> SnapName(numBase, numIts),
        format |-> "numFormat"] >>

\* lines 641-652: the calls of Write of the image channel
ImgWrites(estMap, numIts, imgBase) ==
    << [grid |-> EntrywiseLog(estMap), name |-> SnapName(imgBase, numIts),
        format |-> "imgFormat"],
       [grid |-> EntrywiseLog(estMap),
        name |-> SnapName(imgBase, numIts) \o <<"-discrete">>,
        format |-> "imgFormat"] >>

\* the counters on return and the calls of Write made, in order
Snapshot(estimates, preimage, numIts, deflate, realSize, imagSize, numSaveCount, numFreq, numBase, imgSaveCount, imgFreq, imgBase) ==
    IF realSize # 0 /\ imagSize # 0
    THEN LET numSave == SaveDue(numFreq, numSaveCount)
             imgSave == SaveDue(imgFreq, imgSaveCount)
             estMap == SnapGrid(estimates, preimage, deflate, realSize, imagSize)
         IN  [numSaveCount |-> IF numSave THEN 0 ELSE numSaveCount,
              imgSaveCount |-> IF imgSave THEN 0 ELSE imgSaveCount,
              writes |->
                 (IF numSave THEN NumWrites(estMap, numIts, numBase) ELSE << >>)
                 \o
                 (IF imgSave THEN ImgWrites(estMap, numIts, imgBase) ELSE << >>)]
    ELSE [numSaveCount |-> numSaveCount, imgSaveCount |-> imgSaveCount,
          writes |-> << >>]

(***************************************************************************)
(* The list utilities and the aligned column operations, with their        *)
(* precondition checks.  Every check stands inside DEBUG_ONLY( ... ), so   *)
(* it is compiled into a debug build and absent from a release build; the  *)
(* build is an input of each operation.  An operation returns the set of   *)
(* its possible outcomes: one outcome where the behaviour is defined,      *)
(* several where an access outside a vector leaves it undefined.           *)
(***************************************************************************)
\* DEBUG_ONLY( if( violated ) LogicError(...) ): the test is made in a
\* debug build only
DebugOnly(release, violated) == ~release /\ violated

\* what a read outside a vector may deliver
Junk == {7}

\* lines 186 and 214: vecList.size() != 0 && vecList[0].size() <= i, the
\* signed i converted to the unsigned type of size(), so that a negative i
\* compares as a huge one
InvalidIndex(vecList, i) ==
    Len(vecList) # 0 /\ (i < 0 \/ Len(vecList[1]) <= i)

\* lines 216, 231, 246 and 261: vecList.size() != list.size()
SizesDiffer(vecList, list) == Len(vecList) # Len(list)

\* the outcome of a raised LogicError: the operands are as they were
Raised(msg, operand) == {[error |-> msg, operand |-> operand]}

\* the outcomes of a loop whose accesses may leave the vectors: a completed
\* loop and, where the behaviour is undefined, a fault with the operand
\* untouched or written
LoopOutcomes(defined, before, results) ==
    {[error |-> "none", operand |-> r] : r \in results}
    \cup (IF defined THEN {}
          ELSE {[error |-> "fault", operand |-> r] :
                    r \in results \cup {before}})

\* the values list[k] may be read as, k = 1..numVecs
ListReads(numVecs, list) ==
    {r \in [1..numVecs -> {list[k] : k \in DOMAIN list} \cup Junk] :
        \A k \in 1..numVecs :
            IF k <= Len(list) THEN r[k] = list[k] ELSE r[k] \in Junk}

\* lines 219-221: for k < numVecs: vecList[k][i] = list[k]
PlaceLoop(vecList, list, i) ==
    LET numVecs == Len(vecList)
        InRange(k) == 0 <= i /\ i < Len(vecList[k])
        defined == \A k \in 1..numVecs : k <= Len(list) /\ InRange(k)
        Written(r) ==
            [k \in 1..numVecs |->
                IF InRange(k) THEN [vecList[k] EXCEPT ![i + 1] = r[k]]
                              ELSE vecList[k]]
    IN  LoopOutcomes(defined, vecList,
                     {Written(r) : r \in ListReads(numVecs, list)})

\* lines 207-222
PlaceList(release, vecList, list, i) ==
    IF DebugOnly(release, InvalidIndex(vecList, i))
    THEN Raised("Invalid index", vecList)
    ELSE IF DebugOnly(release, SizesDiffer(vecList, list))
         THEN Raised("List sizes do not match", vecList)
         ELSE PlaceLoop(vecList, list, i)

\* lines 264-266: for k < numVecs: vecList[k].push_back( list[k] )
PushBackLoop(vecList, list) ==
    LET numVecs == Len(vecList)
        defined == numVecs <= Len(list)
    IN  LoopOutcomes(defined, vecList,
                     {[k \in 1..numVecs |-> Append(vecList[k], r[k])] :
                          r \in ListReads(numVecs, list)})

\* lines 254-267
PushBackList(release, vecList, list) ==
    IF DebugOnly(release, SizesDiffer(vecList, list))
    THEN Raised("List sizes do not match", vecList)
    ELSE PushBackLoop(vecList, list)

\* lines 189-192: list.resize( numVecs ); list[k] = vecList[k][i]; the
\* operand of the outcome is the list
ExtractLoop(vecList, list, i) ==
    LET numVecs == Len(vecList)
        InRange(k) == 0 <= i /\ i < Len(vecList[k])
        defined == \A k \in 1..numVecs : InRange(k)
        reads == {r \in [1..numVecs -> {0, 1} \cup Junk] :
                     \A k \in 1..numVecs :
                         IF InRange(k) THEN r[k] = vecList[k][i + 1]
                                       ELSE r[k] \in Junk}
    IN  LoopOutcomes(defined, list, reads)

\* lines 179-193
ExtractList(release, vecList, list, i) ==
    IF DebugOnly(release, InvalidIndex(vecList, i))
    THEN Raised("Invalid index", list)
    ELSE ExtractLoop(vecList, list, i)

\* lines 276-284, on matrices of one row: Y(:,j) -= components[j] X(:,j)
ColumnSubtractionsLocal(components, X, Y) ==
    [j \in 1..Len(Y) |-> Y[j] - components[j] * X[j]]

\* line 295: X.ColAlign() != Y.ColAlign() || X.RowAlign() != Y.RowAlign()
NotAligned(X, Y) == X.colAlign # Y.colAlign \/ X.rowAlign # Y.rowAlign

\* lines 287-299: the distributed variant works on the local matrices, whose
\* columns are the same global columns only if X and Y are aligned
ColumnSubtractionsDist(release, components, X, Y) ==
    IF DebugOnly(release, NotAligned(X, Y))
    THEN Raised("X and Y should have been aligned", Y)
    ELSE {[error |-> "none",
           operand |-> [Y EXCEPT !.matrix =
                           ColumnSubtractionsLocal(components, X.matrix,
                                                   Y.matrix)]]}

\* lines 578-579: activeItCounts.ColAlign() % activeEsts.ColStride() !=
\* activeEsts.ColAlign()
CountsNotAligned(countsColAlign, estsColStride, estsColAlign) ==
    countsColAlign % estsColStride # estsColAlign

\* lines 568-609 on one process: the flags come from the local estimates;
\* activeItCounts.Update( i, 0, 1 ) adds to the entry of global row i, which
\* is the entry beside the local estimate only if the counters are aligned
\* with the estimates, and else is some entry or none
FindConvergedDist(release, countsColAlign, estsColStride, estsColAlign, lastActiveEsts, activeEsts, activeItCounts, maxDiff) ==
    IF DebugOnly(release,
                 CountsNotAligned(countsColAlign, estsColStride, estsColAlign))
    THEN Raised("Invalid column alignment", activeItCounts)
    ELSE LET r == FindConverged(lastActiveEsts, activeEsts, activeItCounts,
                                maxDiff)
         IN  IF CountsNotAligned(countsColAlign, estsColStride, estsColAlign)
             THEN {[error |-> "none", operand |-> c] :
                      c \in {r.activeItCounts, activeItCounts}}
             ELSE {[error |-> "none", operand |-> r.activeItCounts]}

(***************************************************************************)
(* FixColumns (Util.hpp 466-511) with ColumnNorms (301-345).  A matrix is  *)
(* the sequence of its columns, a column the sequence of its entries.  The *)
(* entries handed in are chosen so that every norm is a rational.          *)
(***************************************************************************)
\* a * b
MulV(a, b) ==
    CASE IsNan(a) \/ IsNan(b) -> NaN
      [] IsInf(a) /\ IsFinite(b) /\ b.n = 0 -> NaN
      [] IsInf(b) /\ IsFinite(a) /\ a.n = 0 -> NaN
      [] IsInf(a) \/ IsInf(b) ->
            IF Less(a, Fin(0)) = Less(b, Fin(0)) THEN PosInf ELSE NegInf
      [] OTHER -> Rat(a.n * b.n, a.d * b.d)

\* a + b
AddV(a, b) ==
    CASE IsNan(a) \/ IsNan(b) -> NaN
      [] IsInf(a) /\ IsInf(b) -> IF a.k = b.k THEN a ELSE NaN
      [] IsInf(a) -> a
      [] IsInf(b) -> b
      [] OTHER -> Rat(a.n * b.d + b.n * a.d, a.d * b.d)

\* the root of a square integer
ISqrt(k) == CHOOSE r \in 0..k : r * r = k

\* Sqrt(a) for a >= 0 whose reduced fraction has a square numerator and a
\* square denominator
SqrtV(a) ==
    CASE IsNan(a) -> NaN
      [] IsInf(a) -> a
      [] OTHER ->
            LET RECURSIVE Gcd(_, _)
                Gcd(p, q) == IF q = 0 THEN p ELSE Gcd(q, p % q)
                g == Gcd(a.d, a.n)
            IN  Rat(ISqrt(a.n \div g), ISqrt(a.d \div g))

RECURSIVE SumSq(_)
SumSq(x) ==
    IF Len(x) = 0 THEN Fin(0)
    ELSE AddV(MulV(x[1], x[1]), SumSq(Tail(x)))

\* blas::Nrm2( m, x, 1 ), also FrobeniusNorm of a column
Nrm2(x) == SqrtV(SumSq(x))

\* lines 310-314: the norm of a column of a sequential matrix
ColumnNorm(x) == Nrm2(x)

\* the entries of a column a process of the column communicator holds
LocalRows(x, p) ==
    LET rows == {i \in 1..Len(x) : (i - 1) % GridSize = p}
        RECURSIVE Pick(_)
        Pick(i) == IF i > Len(x) THEN << >>
                   ELSE IF i \in rows THEN <<x[i]>> \o Pick(i + 1)
                        ELSE Pick(i + 1)
    IN  Pick(1)

RECURSIVE SumLocalSquares(_, _)
SumLocalSquares(x, p) ==
    IF p >= GridSize THEN Fin(0)
    ELSE LET localNorm == Nrm2(LocalRows(x, p))
         IN  AddV(MulV(localNorm, localNorm), SumLocalSquares(x, p + 1))

\* lines 332-344: the squares of the local norms are summed over the column
\* communicator and the root of the sum is taken
ColumnNormDist(x) == SqrtV(SumLocalSquares(x, 0))

\* Scale( alpha, x )
ScaleColumn(alpha, x) == [i \in 1..Len(x) |-> MulV(alpha, x[i])]

\* what MakeGaussian may put into a column of m entries: the library's
\* sampler is kept as a choice among columns that are not zero
Gaussians(m) ==
    {[i \in 1..m |-> IF i = 1 THEN Fin(3) ELSE IF i = 2 THEN Fin(4) ELSE Fin(0)],
     [i \in 1..m |-> IF i = 1 THEN Fin(-4) ELSE Fin(0)]}

\* faulty variant: a column is scaled whatever its norm is
FixColumn_NoRepair(x, norm) == {ScaleColumn(DivV(Fin(1), norm), x)}

\* lines 479-485 and 503-509: one iteration of the loop, as the set of the
\* columns it may leave
FixColumn(x, norm) ==
    IF EqV(norm, Fin(0))
    THEN {ScaleColumn(DivV(Fin(1), Nrm2(g)), g) : g \in Gaussians(Len(x))}
    ELSE {ScaleColumn(DivV(Fin(1), norm), x)}

\* the sequences whose entry j is drawn from sets[j]
RECURSIVE Choices(_)
Choices(sets) ==
    IF Len(sets) = 0 THEN {<< >>}
    ELSE {<<c>> \o rest : c \in sets[1], rest \in Choices(Tail(sets))}

\* lines 466-487: the matrices a call may leave
FixColumns(X) ==
    Choices([j \in 1..Len(X) |-> FixColumn(X[j], ColumnNorm(X[j]))])

\* lines 489-511: every column is handled by the processes that own it
FixColumnsDist(X) ==
    Choices([j \in 1..Len(X) |-> FixColumn(X[j], ColumnNormDist(X[j]))])

(***************************************************************************)
(* socp::affine::KKT (FullKKT.cpp 41-188): four overloads, dense,          *)
(* distributed dense, sparse and distributed sparse.  The body of each is  *)
(* the call of LogicError; the assembly that follows it is a comment.      *)
(***************************************************************************)
Overloads == {"dense", "distDense", "sparse", "distSparse"}

\* faulty variant: the assembly of the dense overloads is compiled and
\* starts with Zeros( J, n+m+k, n+m+k )
KKT_Finished(overload, m, n, k, J, onlyLower) ==
    IF overload \in {"dense", "distDense"}
    THEN [error |-> "none", J |-> [i \in 1..(n + m + k) |-> 0]]
    ELSE [error |-> "This routine is not yet finished", J |-> J]

\* lines 51-52, 103-104, 159-160 and 179-180: A is m x n, G is k x n; the
\* error is raised before any statement touches J
KKT(overload, m, n, k, J, onlyLower) ==
    [error |-> "This routine is not yet finished", J |-> J]

(***************************************************************************)
(* Snapshot and the objects it touches (Util.hpp 611-654 and 656-700): the *)
(* operands estimates and preimage, the local invNorms and estMap, and the *)
(* color map of the process.  The two variants differ in RestoreOrdering   *)
(* and ReshapeIntoGrid.  A copy of the reshape that falls outside estMap   *)
(* is a write outside the storage of estMap: where the call returns, the   *)
(* write has landed in storage that is not looked at here or in an entry   *)
(* of one of the operands.                                                 *)
(***************************************************************************)
ColorMaps == {"GRAYSCALE", "GRAYSCALE_DISCRETE", "RED_BLACK_GREEN"}

\* SetColorMap( c ), lines 648 and 650
SetColorMap(mem, c) == [mem EXCEPT !.colorMap = c]

\* lines 629-631: invNorms = estimates; if( deflate ) RestoreOrdering(...)
SnapInvNorms(variant, mem, deflate) ==
    IF ~deflate THEN mem.estimates
    ELSE IF variant = "Matrix"
         THEN RestoreOrdering(mem.preimage, mem.estimates)
         ELSE Gather(RestoreOrderingDist(Distribute(mem.preimage),
                                         Distribute(mem.estimates)))

\* line 632
SnapReshape(variant, realSize, imagSize, invNorms) ==
    IF variant = "Matrix"
    THEN ReshapeIntoGridSeq(realSize, imagSize, invNorms)
    ELSE ReshapeIntoGridDist(realSize, imagSize, invNorms)

\* the operands after the copies of a reshape that returned
Landings(mem, r, realSize, imagSize, invNorms) ==
    LET stray == {a \in r.copies : ~InGrid(a, realSize, imagSize)}
    IN  {mem}
        \cup {[mem EXCEPT !.estimates[k] = invNorms[a.src + 1]] :
                 k \in DOMAIN mem.estimates, a \in stray}
        \cup {[mem EXCEPT !.preimage[k] = v] :
                 k \in DOMAIN mem.preimage,
                 v \in IF stray = {} THEN {} ELSE Junk}

\* lines 641-652: the color map at the two calls of Write of the image
\* channel, and the objects after the channel
SnapImage(mem) ==
    LET colorMap == mem.colorMap
        discrete == SetColorMap(mem, "GRAYSCALE_DISCRETE")
    IN  [mem |-> SetColorMap(discrete, colorMap),
         maps |-> <<mem.colorMap, discrete.colorMap>>]

\* the outcomes of a call: whether it returned, the operands and the color
\* map on return, and the color map at each call of Write of the image
\* channel
SnapshotOutcomes(variant, mem, deflate, realSize, imagSize, numSave, imgSave) ==
    LET after(m) ==
            IF imgSave
            THEN [error |-> "none", mem |-> SnapImage(m).mem,
                  maps |-> SnapImage(m).maps]
            ELSE [error |-> "none", mem |-> m, maps |-> << >>]
    IN  IF realSize # 0 /\ imagSize # 0 /\ (numSave \/ imgSave)
        THEN LET invNorms == SnapInvNorms(variant, mem, deflate)
             IN  UNION {IF r.error = "none"
                        THEN {after(m) :
                                m \in Landings(mem, r, realSize, imagSize,
                                               invNorms)}
                        ELSE {[error |-> r.error, mem |-> mem, maps |-> << >>]} :
                        r \in SnapReshape(variant, realSize, imagSize, invNorms)}
        ELSE {[error |-> "none", mem |-> mem, maps |-> << >>]}

(***************************************************************************)
(* The chunk run: the outer loop of the estimator over one chunk's shifts. *)
(* The loop itself is not part of the utilities; it is modelled from the   *)
(* algorithm of the specification (section 4.1) around CapEstimates,       *)
(* FindConverged and RestoreOrdering.                                      *)
(***************************************************************************)
VARIABLES
    deflate,          \* deflation enabled
    tol,              \* convergence tolerance
    maxIts,           \* maximum number of outer steps
    estimates,        \* estimate per compacted position
    lastActiveEsts,   \* the active estimates of the previous step
    itCounts,         \* iteration count per compacted position, and per
                      \* original index once the run is done
    preimage,         \* compacted position -> original shift index
    activeConverged,  \* the flags of the last call of FindConverged
    numDone,          \* number of shifts found converged
    numIts,           \* outer steps made
    pc,               \* "loop" or "done"
    invNorms          \* the reported estimates, in original order

runVars == <<deflate, tol, maxIts, estimates, lastActiveEsts, itCounts,
             preimage, activeConverged, numDone, numIts, pc, invNorms>>

Shifts == 1..NumShifts

\* the values one iteration yields for a shift in a run: a NaN, which is
\* capped, or one of two positive column norms; with the tolerances below
\* a shift can converge at any step (1 -> 1, 1 -> 2 at tolerance 1/2) or
\* never (1 -> 2 -> 1 ... at tolerance 0).  What CapEstimates and
\* FindConverged make of the other values is the matter of their calls.
RunRaw == {NaN, Fin(1), Fin(2)}
Tols == {Fin(0), Rat(1, 2)}

Identity(n) == [j \in 1..n |-> j]
Swap(v, i, j) == [v EXCEPT ![i] = v[j], ![j] = v[i]]

\* the state of a run as a record
RunInit(d, t, m) ==
    [deflate |-> d, tol |-> t, maxIts |-> m,
     estimates |-> [j \in Shifts |-> Fin(0)],
     lastActiveEsts |-> [j \in Shifts |-> Fin(0)],
     itCounts |-> [j \in Shifts |-> 0],
     preimage |-> Identity(NumShifts),
     activeConverged |-> << >>,
     numDone |-> 0, numIts |-> 0, pc |-> "loop", invNorms |-> << >>]

NumActive(s) == IF s.deflate THEN NumShifts - s.numDone ELSE NumShifts

\* deflation: the converged active shifts are swapped behind the others, the
\* preimage, the estimates and the counters moving together
RECURSIVE DeflateLoop(_, _, _, _)
DeflateLoop(st, conv, swapFrom, swapTo) ==
    IF swapFrom < 1 THEN st
    ELSE IF conv[swapFrom] # 0
         THEN DeflateLoop(
                 IF swapTo # swapFrom
                 THEN [preimage |-> Swap(st.preimage, swapFrom, swapTo),
                       estimates |-> Swap(st.estimates, swapFrom, swapTo),
                       itCounts |-> Swap(st.itCounts, swapFrom, swapTo)]
                 ELSE st,
                 conv, swapFrom - 1, swapTo - 1)
         ELSE DeflateLoop(st, conv, swapFrom - 1, swapTo)

Deflate(pre, ests, counts, conv) ==
    DeflateLoop([preimage |-> pre, estimates |-> ests, itCounts |-> counts],
                conv, Len(conv), Len(conv))

\* after the loop: the results are put back into the original order
RunFinish(s) ==
    IF s.deflate
    THEN LET r == RestoreOrdering2(s.preimage, s.estimates, s.itCounts)
         IN  [s EXCEPT !.invNorms = r.x, !.itCounts = r.y, !.pc = "done"]
    ELSE [s EXCEPT !.invNorms = s.estimates, !.pc = "done"]

\* one outer step: raw[j] is what the batched solve yields for position j.
\* The step that ends the loop also restores the ordering.
RunStep(s, raw) ==
    LET numActive == NumActive(s)
        activeEsts == CapEstimates(raw)
        fc == FindConverged(SubSeq(s.lastActiveEsts, 1, numActive), activeEsts,
                            SubSeq(s.itCounts, 1, numActive), s.tol)
        ests == [j \in Shifts |->
                    IF j <= numActive THEN activeEsts[j] ELSE s.estimates[j]]
        counts == [j \in Shifts |->
                    IF j <= numActive THEN fc.activeItCounts[j] ELSE s.itCounts[j]]
        numActiveDone == ZeroNorm(fc.activeConverged)
        done == IF s.deflate THEN s.numDone + numActiveDone ELSE numActiveDone
        its == s.numIts + 1
        d == Deflate(s.preimage, ests, counts, fc.activeConverged)
    IN  IF its = s.maxIts \/ done = NumShifts
        THEN RunFinish([s EXCEPT !.estimates = ests, !.itCounts = counts,
                                 !.activeConverged = fc.activeConverged,
                                 !.numDone = done, !.numIts = its])
        ELSE IF s.deflate /\ numActiveDone # 0
        THEN [s EXCEPT !.estimates = d.estimates, !.itCounts = d.itCounts,
                       !.preimage = d.preimage,
                       !.activeConverged = fc.activeConverged,
                       !.lastActiveEsts = SubSeq(d.estimates, 1, numActive),
                       !.numDone = done, !.numIts = its]
        ELSE [s EXCEPT !.estimates = ests, !.itCounts = counts,
                       !.activeConverged = fc.activeConverged,
                       !.lastActiveEsts = SubSeq(ests, 1, numActive),
                       !.numDone = done, !.numIts = its]

CurRun ==
    [deflate |-> deflate, tol |-> tol, maxIts |-> maxIts,
     estimates |-> estimates, lastActiveEsts |-> lastActiveEsts,
     itCounts |-> itCounts, preimage |-> preimage,
     activeConverged |-> activeConverged, numDone |-> numDone,
     numIts |-> numIts, pc |-> pc, invNorms |-> invNorms]

SetRun(s) ==
    /\ deflate' = s.deflate
    /\ tol' = s.tol
    /\ maxIts' = s.maxIts
    /\ estimates' = s.estimates
    /\ lastActiveEsts' = s.lastActiveEsts
    /\ itCounts' = s.itCounts
    /\ preimage' = s.preimage
    /\ activeConverged' = s.activeConverged
    /\ numDone' = s.numDone
    /\ numIts' = s.numIts
    /\ pc' = s.pc
    /\ invNorms' = s.invNorms

RunIs(s) ==
    /\ deflate = s.deflate
    /\ tol = s.tol
    /\ maxIts = s.maxIts
    /\ estimates = s.estimates
    /\ lastActiveEsts = s.lastActiveEsts
    /\ itCounts = s.itCounts
    /\ preimage = s.preimage
    /\ activeConverged = s.activeConverged
    /\ numDone = s.numDone
    /\ numIts = s.numIts
    /\ pc = s.pc
    /\ invNorms = s.invNorms

InitRun ==
    \E d \in BOOLEAN, t \in Tols, m \in 1..MaxMaxIts : RunIs(RunInit(d, t, m))

\* an outer step after which the loop goes on
Step ==
    /\ pc = "loop"
    /\ \E raw \in [1..NumActive(CurRun) -> RunRaw] :
          \E s \in {RunStep(CurRun, raw)} :
              s.pc = "loop" /\ SetRun(s)

\* the outer step that ends the loop, and the restore that follows it
LastStep ==
    /\ pc = "loop"
    /\ \E raw \in [1..NumActive(CurRun) -> RunRaw] :
          \E s \in {RunStep(CurRun, raw)} :
              s.pc = "done" /\ SetRun(s)

\* runs in which the solve yields 0 for one shift at every step: the shift
\* with the last original index, which deflation moves when a shift before
\* it converges.  The other shifts get 0 or 1 and converge on 1 -> 1.
ZeroRaw == {Fin(0), Fin(1)}
ZeroShift == NumShifts

ZeroStays(raw) ==
    \A j \in DOMAIN raw : preimage[j] = ZeroShift => raw[j] = Fin(0)

ZeroStep ==
    /\ pc = "loop"
    /\ \E raw \in [1..NumActive(CurRun) -> ZeroRaw] :
          /\ ZeroStays(raw)
          /\ \E s \in {RunStep(CurRun, raw)} : s.pc = "loop" /\ SetRun(s)

ZeroLastStep ==
    /\ pc = "loop"
    /\ \E raw \in [1..NumActive(CurRun) -> ZeroRaw] :
          /\ ZeroStays(raw)
          /\ \E s \in {RunStep(CurRun, raw)} : s.pc = "done" /\ SetRun(s)

(***************************************************************************)
(* The history of a run, kept per original shift index.                    *)
(***************************************************************************)
VARIABLES
    everConverged,   \* the shifts found converged at some step
    everCapped,      \* the shifts whose estimate reached normCap at some step
    lastFlag         \* the flag of the last step's check of the shift
                     \* (-1: the shift was not checked at that step)

histVars == <<everConverged, everCapped, lastFlag>>

\* the estimate of a shift that a step has computed and capped, at the last
\* step whose check found the shift converged (NoEst: there was none)
VARIABLES decidedEst

orderVars == <<decidedEst>>

NoEst == [k |-> "none", n |-> 0, d |-> 1]

InitHist ==
    /\ everConverged = {}
    /\ everCapped = {}
    /\ lastFlag = [i \in Shifts |-> -1]
    /\ decidedEst = [i \in Shifts |-> NoEst]

\* the compacted position of original shift i
PosOf(pre, i) == CHOOSE j \in 1..Len(pre) : pre[j] = i

\* what a step adds to the history: the positions are those before the
\* step's deflation for the flags and those after it for the estimates
RecordStep ==
    LET active == {preimage[j] : j \in 1..NumActive(CurRun)}
    IN  /\ lastFlag' = [i \in Shifts |->
                           IF i \in active
                           THEN activeConverged'[PosOf(preimage, i)]
                           ELSE -1]
        /\ everConverged' = everConverged \cup
                              {i \in active : lastFlag'[i] = 1}
        /\ everCapped' = everCapped \cup
              {i \in active : Geq(estimates'[PosOf(preimage', i)], NormCapV)}

\* what a step of a deflating run adds to decidedEst: raw[j] is what the
\* step's solve yields for position j
RecordDecided(raw) ==
    decidedEst' =
        [i \in Shifts |->
            IF \E j \in 1..NumActive(CurRun) :
                  preimage[j] = i /\ activeConverged'[j] = 1
            THEN CapEntry(raw[PosOf(preimage, i)])
            ELSE decidedEst[i]]

\* an outer step of a deflating run, the last one included
OrderStep ==
    /\ pc = "loop" /\ deflate
    /\ \E raw \in [1..NumActive(CurRun) -> RunRaw] :
          \E s \in {RunStep(CurRun, raw)} : SetRun(s) /\ RecordDecided(raw)

(***************************************************************************)
(* Two runs on the same estimates: pairD deflates, pairN does not.  raw[i] *)
(* is what the step's solve yields for original shift i; the deflating run *)
(* reads it for its active shifts only.                                    *)
(***************************************************************************)
VARIABLES pairD, pairN

pairVars == <<pairD, pairN>>

InitPair ==
    \E t \in Tols, m \in 1..MaxMaxIts :
        /\ pairD = RunInit(TRUE, t, m)
        /\ pairN = RunInit(FALSE, t, m)

\* a step of both runs
PairStep ==
    /\ pairN.pc = "loop" /\ pairD.pc = "loop"
    /\ \E raw \in [Shifts -> RunRaw] :
          /\ pairN' = RunStep(pairN, raw)
          /\ pairD' = RunStep(pairD, [j \in 1..NumActive(pairD) |->
                                         raw[pairD.preimage[j]]])

\* a step of the run without deflation, the deflating run being done
PairStepAlone ==
    /\ pairN.pc = "loop" /\ pairD.pc = "done"
    /\ \E raw \in [Shifts -> RunRaw] : pairN' = RunStep(pairN, raw)
    /\ UNCHANGED pairD

(***************************************************************************)
(* Calls of the array functions on bounded inputs: `call' is the function  *)
(* and its arguments, `ret' what it returns or leaves in its operands.     *)
(***************************************************************************)
VARIABLES call, ret

pureVars == <<call, ret>>

NoRet == [done |-> FALSE]

\* every value CapEstimates may be handed
CapRaw == {NaN, PosInf, NegInf, Fin(-1), Fin(0), Fin(1),
           Fin(NormCap - 1), Fin(NormCap), Fin(NormCap + 1)}

\* estimates FindConverged may be handed
FcCurr == {NaN, PosInf, NegInf, Fin(-1), Fin(0), Fin(2), Fin(NormCap)}
FcLast == {NegInf, Fin(-2), Fin(0), Fin(1), Fin(2), Fin(NormCap)}
FcTols == {Fin(0), Rat(1, 2), Fin(1)}
\* number of active shifts of a FindConverged call
MaxActive == 2

Bits == {0, 1}

InitCap ==
    /\ \E n \in 1..MaxLen :
          \E v \in [1..n -> CapRaw] :
              call = [fn |-> "CapEstimates", activeEsts |-> v]
    /\ ret = NoRet

InitFind ==
    /\ \E n \in 1..MaxActive :
          \E l \in [1..n -> FcLast], c \in [1..n -> FcCurr], t \in FcTols :
              call = [fn |-> "FindConverged", lastActiveEsts |-> l,
                      activeEsts |-> c,
                      activeItCounts |-> [j \in 1..n |-> j - 1], maxDiff |-> t]
    /\ ret = NoRet

\* RestoreOrdering on one array, iteration by iteration: the entries of x
\* are all different or taken from Bits
InitRestoreLoop ==
    /\ \E n \in 1..MaxLen, f \in {"RestoreOrdering", "RestoreOrderingDist"} :
          \E pre \in [1..n -> 1..n], x \in [1..n -> Bits] \cup {Identity(n)} :
              call = [fn |-> f, preimage |-> pre, x |-> x]
    /\ ret = NoRet

RestoreEnter ==
    /\ call.fn \in {"RestoreOrdering", "RestoreOrderingDist"}
    /\ ret = NoRet
    /\ ret' = [done |-> FALSE,
               st |-> RestoreEntry(call.fn, call.preimage, call.x)]
    /\ UNCHANGED call

\* line 87: j < numShifts
RestoreIterate ==
    /\ call.fn \in {"RestoreOrdering", "RestoreOrderingDist"}
    /\ ret # NoRet /\ ~ret.done
    /\ ret.st.j <= Len(call.preimage)
    /\ ret' = [ret EXCEPT !.st = RestoreIteration(call.fn, ret.st)]
    /\ UNCHANGED call

RestoreReturn ==
    /\ call.fn \in {"RestoreOrdering", "RestoreOrderingDist"}
    /\ ret # NoRet /\ ~ret.done
    /\ ret.st.j > Len(call.preimage)
    /\ ret' = [ret EXCEPT !.done = TRUE]
    /\ UNCHANGED call

\* calls of FindConverged with estimates that are 0, after any last estimate
ZeroLast == FcLast \cup {NaN, PosInf}

InitFindZero ==
    /\ \E n \in 1..MaxActive :
          \E l \in [1..n -> ZeroLast], c \in [1..n -> {Fin(0), Fin(2)}],
             t \in FcTols :
              call = [fn |-> "FindConverged", lastActiveEsts |-> l,
                      activeEsts |-> c,
                      activeItCounts |-> [j \in 1..n |-> j - 1], maxDiff |-> t]
    /\ ret = NoRet

\* one array: y is absent; two arrays: x and y
InitRestore ==
    /\ \E n \in 1..MaxLen :
          \E pre \in [1..n -> 1..n], x \in [1..n -> Bits] :
              \/ \E f \in {"RestoreOrdering", "RestoreOrderingDist"} :
                    call = [fn |-> f, preimage |-> pre, x |-> x, y |-> << >>]
              \/ \E f \in {"RestoreOrdering2", "RestoreOrdering2Dist"} :
                    \E y \in [1..n -> Bits] :
                        call = [fn |-> f, preimage |-> pre, x |-> x, y |-> y]
    /\ ret = NoRet

CallCapEstimates ==
    /\ call.fn = "CapEstimates" /\ ~ret.done
    /\ ret' = [done |-> TRUE, activeEsts |-> CapEstimates(call.activeEsts)]
    /\ UNCHANGED call

CallFindConverged ==
    /\ call.fn = "FindConverged" /\ ~ret.done
    /\ LET r == FindConverged(call.lastActiveEsts, call.activeEsts,
                              call.activeItCounts, call.maxDiff)
       IN  ret' = [done |-> TRUE, activeConverged |-> r.activeConverged,
                   activeItCounts |-> r.activeItCounts]
    /\ UNCHANGED call

CallRestoreOrdering ==
    /\ call.fn = "RestoreOrdering" /\ ~ret.done
    /\ ret' = [done |-> TRUE, x |-> RestoreOrdering(call.preimage, call.x),
               y |-> << >>]
    /\ UNCHANGED call

CallRestoreOrdering2 ==
    /\ call.fn = "RestoreOrdering2" /\ ~ret.done
    /\ LET r == RestoreOrdering2(call.preimage, call.x, call.y)
       IN  ret' = [done |-> TRUE, x |-> r.x, y |-> r.y]
    /\ UNCHANGED call

CallRestoreOrderingDist ==
    /\ call.fn = "RestoreOrderingDist" /\ ~ret.done
    /\ ret' = [done |-> TRUE,
               x |-> Gather(RestoreOrderingDist(Distribute(call.preimage),
                                                Distribute(call.x))),
               y |-> << >>]
    /\ UNCHANGED call

CallRestoreOrdering2Dist ==
    /\ call.fn = "RestoreOrdering2Dist" /\ ~ret.done
    /\ LET r == RestoreOrdering2Dist(Distribute(call.preimage),
                                     Distribute(call.x), Distribute(call.y))
       IN  ret' = [done |-> TRUE, x |-> Gather(r.x), y |-> Gather(r.y)]
    /\ UNCHANGED call

\* the columns handed to FixColumns: finite columns with a rational norm,
\* the zero column among them, a column of NaNs and a column with an
\* infinite entry
FixCols(m) ==
    {x \in [1..m -> {Fin(0), Fin(3), Fin(4)}] :
        \E r \in 0..5 : EqV(SumSq(x), Fin(r * r))}
    \cup {[i \in 1..m |-> NaN],
          [i \in 1..m |-> IF i = 1 THEN PosInf ELSE Fin(3)]}

InitFixColumns ==
    /\ \E m \in 1..MaxLen, n \in 1..MaxActive :
          \E X \in [1..n -> FixCols(m)] :
              \E f \in {"FixColumns", "FixColumnsDist"} :
                  call = [fn |-> f, X |-> X]
    /\ ret = NoRet

CallFixColumns ==
    /\ call.fn = "FixColumns" /\ ~ret.done
    /\ \E Y \in FixColumns(call.X) : ret' = [done |-> TRUE, X |-> Y]
    /\ UNCHANGED call

CallFixColumnsDist ==
    /\ call.fn = "FixColumnsDist" /\ ~ret.done
    /\ \E Y \in FixColumnsDist(call.X) : ret' = [done |-> TRUE, X |-> Y]
    /\ UNCHANGED call

\* the calls of KKT: the heights m of A and k of G, their width n, and a J
\* the caller hands in, kept as the sequence of its entries
InitKKT ==
    /\ \E overload \in Overloads, onlyLower \in BOOLEAN :
          \E m \in 0..MaxActive, n \in 0..MaxActive, k \in 0..MaxActive :
              \E len \in 0..MaxActive :
                  \E J \in [1..len -> Bits] :
                      call = [fn |-> "KKT", overload |-> overload, m |-> m,
                              n |-> n, k |-> k, J |-> J,
                              onlyLower |-> onlyLower]
    /\ ret = NoRet

CallKKT ==
    /\ call.fn = "KKT" /\ ~ret.done
    /\ LET r == KKT(call.overload, call.m, call.n, call.k, call.J,
                    call.onlyLower)
       IN  ret' = [done |-> TRUE, error |-> r.error, J |-> r.J]
    /\ UNCHANGED call

(***************************************************************************)
(* The distributed FindConverged (Util.hpp 568-609) on a process grid of   *)
(* gridHeight x gridWidth processes, each process a pair <<row, col>>.     *)
(* The estimates and the flags are [MR,STAR]: row i is held by every       *)
(* process of grid column (i + colAlign) mod gridWidth.  The counters are  *)
(* [VR,STAR]: row i is held by the one process whose rank in the row-major *)
(* order of the grid is (i + colAlign) mod (gridHeight*gridWidth).  Every  *)
(* process runs the loop over its local estimates; the processes run in    *)
(* any order.  Rows are numbered from 0 as in the code.                    *)
(***************************************************************************)
GridProcs(gridHeight, gridWidth) ==
    (0..(gridHeight - 1)) \X (0..(gridWidth - 1))

\* the rows of the estimates a process holds: lines 588-592
LocalShifts(proc, numShifts, gridWidth, estsColAlign) ==
    {i \in 0..(numShifts - 1) : (i + estsColAlign) % gridWidth = proc[2]}

\* activeItCounts.Update( i, 0, 1 ), line 604: the update is made by the
\* process that holds row i of the counters
OwnsCount(proc, i, gridHeight, gridWidth, countsColAlign) ==
    proc[2] + proc[1] * gridWidth
        = (i + countsColAlign) % (gridHeight * gridWidth)

\* faulty variant: every process that holds the estimate of a shift adds to
\* the counter of the shift
FindConvergedLocal_EveryReplica(proc, c, counts) ==
    LET mine == LocalShifts(proc, Len(c.activeEsts), c.gridWidth,
                            c.estsColAlign)
        converged == [i \in mine |->
                        IsConverged(c.lastActiveEsts[i + 1],
                                    c.activeEsts[i + 1], c.maxDiff)]
    IN  [flags |-> [i \in mine |-> IF converged[i] THEN 1 ELSE 0],
         counts |->
            [j \in 1..Len(counts) |->
                IF (j - 1) \in mine /\ ~converged[j - 1]
                THEN counts[j] + 1 ELSE counts[j]]]

\* lines 589-606 on one process: its flags, and the counters after its
\* updates
FindConvergedLocal(proc, c, counts) ==
    LET mine == LocalShifts(proc, Len(c.activeEsts), c.gridWidth,
                            c.estsColAlign)
        converged == [i \in mine |->
                        IsConverged(c.lastActiveEsts[i + 1],
                                    c.activeEsts[i + 1], c.maxDiff)]
    IN  [flags |-> [i \in mine |-> IF converged[i] THEN 1 ELSE 0],
         counts |->
            [j \in 1..Len(counts) |->
                IF /\ (j - 1) \in mine
                   /\ ~converged[j - 1]
                   /\ OwnsCount(proc, j - 1, c.gridHeight, c.gridWidth,
                                c.countsColAlign)
                THEN counts[j] + 1 ELSE counts[j]]]

\* the operands are aligned as the caller of FindConverged has to align
\* them: lines 578-580
InitFindGrid ==
    /\ \E n \in 1..MaxActive, gridHeight \in 1..GridSize,
          gridWidth \in 1..GridSize :
          \E estsColAlign \in 0..(gridWidth - 1),
             countsColAlign \in 0..(gridHeight * gridWidth - 1),
             curr \in [1..n -> {Fin(1), Fin(2), NaN}] :
              /\ ~CountsNotAligned(countsColAlign, gridWidth, estsColAlign)
              /\ call = [fn |-> "FindConvergedGrid",
                         gridHeight |-> gridHeight, gridWidth |-> gridWidth,
                         estsColAlign |-> estsColAlign,
                         countsColAlign |-> countsColAlign,
                         lastActiveEsts |-> [j \in 1..n |-> Fin(1)],
                         activeEsts |-> curr,
                         activeItCounts |-> [j \in 1..n |-> j - 1],
                         maxDiff |-> Fin(0)]
              /\ ret = [done |-> FALSE, ran |-> {},
                        activeItCounts |-> [j \in 1..n |-> j - 1],
                        flags |-> [proc \in GridProcs(gridHeight, gridWidth)
                                      |-> << >>]]

\* one process runs its loop
ProcFindConverged ==
    /\ call.fn = "FindConvergedGrid" /\ ~ret.done
    /\ \E proc \in GridProcs(call.gridHeight, call.gridWidth) \ ret.ran :
          LET r == FindConvergedLocal(proc, call, ret.activeItCounts)
          IN  ret' = [done |-> ret.ran \cup {proc}
                                  = GridProcs(call.gridHeight, call.gridWidth),
                      ran |-> ret.ran \cup {proc},
                      activeItCounts |-> r.counts,
                      flags |-> [ret.flags EXCEPT ![proc] = r.flags]]
    /\ UNCHANGED call

(***************************************************************************)
(* The three all-to-all exchanges of the distributed sparse LeastSquares   *)
(* (LeastSquares.cpp 261-665), seen from one process: the send counts it   *)
(* announces and the entries it packs, per destination.  The rows and the  *)
(* entries the process holds and the owner of every row are inputs.        *)
(***************************************************************************)
\* largest height m and width n of ABar, largest number k of right-hand
\* sides
MaxDim == 2

\* the members of a set of rows in ascending order, as the loops over the
\* local rows meet them
RECURSIVE Ascending(_)
Ascending(rows) ==
    IF rows = {} THEN << >>
    ELSE LET least == CHOOSE i \in rows : \A l \in rows : i <= l
         IN  <<least>> \o Ascending(rows \ {least})

\* k copies of a destination
Times(k, owner) == [j \in 1..k |-> owner]

\* the number of entries a list of destinations holds for each process
PerOwner(dests) ==
    [q \in Procs |-> Cardinality({e \in 1..Len(dests) : dests[e] = q})]

\* lines 319-336: the destinations counted for the entries of ABar
RECURSIVE MetaEntriesJ(_, _, _, _)
MetaEntriesJ(m, n, entries, owner) ==
    IF Len(entries) = 0 THEN << >>
    ELSE LET i == entries[1][1]
             j == entries[1][2]
         IN  (IF m >= n THEN <<owner[i], owner[j + m]>>
                        ELSE <<owner[i + n], owner[j]>>)
             \o MetaEntriesJ(m, n, Tail(entries), owner)

\* lines 337-346: the destinations counted for the rows of dRow or dCol
MetaDiagJ(diagRows, owner) == [e \in 1..Len(diagRows) |-> owner[diagRows[e]]]

\* lines 357-388: the destinations packed for the entries of ABar
RECURSIVE PackEntriesJ(_, _, _, _)
PackEntriesJ(m, n, entries, owner) ==
    IF Len(entries) = 0 THEN << >>
    ELSE LET i == entries[1][1]
             j == entries[1][2]
         IN  (IF m >= n THEN <<owner[i], owner[j + m]>>
                        ELSE <<owner[i + n], owner[j]>>)
             \o PackEntriesJ(m, n, Tail(entries), owner)

\* lines 389-414: the destinations packed for the rows of dRow or dCol
PackDiagJ(diagRows, owner) == [e \in 1..Len(diagRows) |-> owner[diagRows[e]]]

\* lines 315-444: the assembly of J
AssembleJ(m, n, entries, diagRows, owner) ==
    [announced |-> PerOwner(MetaEntriesJ(m, n, entries, owner)
                            \o MetaDiagJ(diagRows, owner)),
     packed |-> PerOwner(PackEntriesJ(m, n, entries, owner)
                         \o PackDiagJ(diagRows, owner))]

\* lines 454-461: the destinations counted for the local rows of BBar
RECURSIVE MetaD(_, _, _, _, _)
MetaD(m, n, k, rows, owner) ==
    IF Len(rows) = 0 THEN << >>
    ELSE Times(k, IF m >= n THEN owner[rows[1]] ELSE owner[rows[1] + n])
         \o MetaD(m, n, k, Tail(rows), owner)

\* lines 472-500: the destinations packed for the local rows of BBar
RECURSIVE PackD(_, _, _, _, _)
PackD(m, n, k, rows, owner) ==
    IF Len(rows) = 0 THEN << >>
    ELSE Times(k, IF m >= n THEN owner[rows[1]] ELSE owner[rows[1] + n])
         \o PackD(m, n, k, Tail(rows), owner)

\* lines 448-519: the assembly of D
AssembleD(m, n, k, rows, owner) ==
    [announced |-> PerOwner(MetaD(m, n, k, rows, owner)),
     packed |-> PerOwner(PackD(m, n, k, rows, owner))]

\* lines 581-596: the destinations counted for the local rows of D; the
\* branch is chosen by m > n
RECURSIVE MetaX(_, _, _, _, _)
MetaX(m, n, k, rows, owner) ==
    IF Len(rows) = 0 THEN << >>
    ELSE LET i == rows[1]
         IN  IF m > n
             THEN (IF i >= m THEN Times(k, owner[i - m]) ELSE << >>)
                  \o MetaX(m, n, k, Tail(rows), owner)
             ELSE IF i < n
                  THEN Times(k, owner[i]) \o MetaX(m, n, k, Tail(rows), owner)
                  ELSE << >>

\* lines 607-640: the destinations packed for the local rows of D; the
\* branch is chosen by m >= n
RECURSIVE PackX(_, _, _, _, _)
PackX(m, n, k, rows, owner) ==
    IF Len(rows) = 0 THEN << >>
    ELSE LET i == rows[1]
         IN  IF m >= n
             THEN (IF i >= m THEN Times(k, owner[i - m]) ELSE << >>)
                  \o PackX(m, n, k, Tail(rows), owner)
             ELSE IF i < n
                  THEN Times(k, owner[i]) \o PackX(m, n, k, Tail(rows), owner)
                  ELSE << >>

\* lines 576-661: the extraction of X
ExtractX(m, n, k, rows, owner) ==
    [announced |-> PerOwner(MetaX(m, n, k, rows, owner)),
     packed |-> PerOwner(PackX(m, n, k, rows, owner))]

\* the local entries of ABar: at most two positions (i, j)
LocalEntries(m, n) ==
    LET pos == (0..(m - 1)) \X (0..(n - 1))
    IN  {<< >>} \cup {<<a>> : a \in pos} \cup {<<a, b>> : a \in pos, b \in pos}

InitLeastSquares ==
    /\ \E m \in 1..MaxDim, n \in 1..MaxDim :
          \/ \E entries \in LocalEntries(m, n),
                diagRows \in SUBSET (0..((IF m >= n THEN m ELSE n) - 1)),
                owner \in [0..(m + n - 1) -> Procs] :
                call = [fn |-> "AssembleJ", m |-> m, n |-> n, k |-> 1,
                        entries |-> entries, rows |-> Ascending(diagRows),
                        owner |-> owner]
          \/ \E k \in 1..MaxDim, rows \in SUBSET (0..(m - 1)),
                owner \in [0..(m + n - 1) -> Procs] :
                call = [fn |-> "AssembleD", m |-> m, n |-> n, k |-> k,
                        entries |-> << >>, rows |-> Ascending(rows),
                        owner |-> owner]
          \/ \E k \in 1..MaxDim, rows \in SUBSET (0..(m + n - 1)),
                owner \in [0..(n - 1) -> Procs] :
                call = [fn |-> "ExtractX", m |-> m, n |-> n, k |-> k,
                        entries |-> << >>, rows |-> Ascending(rows),
                        owner |-> owner]
    /\ ret = NoRet

ReturnCounts(r) ==
    /\ ~ret.done
    /\ ret' = [done |-> TRUE, announced |-> r.announced, packed |-> r.packed]
    /\ UNCHANGED call

CallAssembleJ ==
    /\ call.fn = "AssembleJ"
    /\ ReturnCounts(AssembleJ(call.m, call.n, call.entries, call.rows,
                              call.owner))

CallAssembleD ==
    /\ call.fn = "AssembleD"
    /\ ReturnCounts(AssembleD(call.m, call.n, call.k, call.rows, call.owner))

CallExtractX ==
    /\ call.fn = "ExtractX"
    /\ ReturnCounts(ExtractX(call.m, call.n, call.k, call.rows, call.owner))

\* the list utilities and the aligned operations: the largest number of
\* vectors, of entries of a vector and of entries of a list
MaxVecs == 2

\* the entries of a list handed to PlaceList and PushBackList
ListVals == {2, 3}

\* the vectors of a vecList are histories of equal length
VecLists ==
    UNION {[1..numVecs -> [1..len -> Bits]] :
              numVecs \in 0..MaxVecs, len \in 0..MaxVecs}

Lists == UNION {[1..m -> ListVals] : m \in 0..MaxVecs}

\* a distributed matrix of one row on one process: its alignments and its
\* local columns
DistOperands(n) ==
    [colAlign : Procs, rowAlign : Procs, matrix : [1..n -> Bits]]

InitPrecond ==
    /\ \E release \in BOOLEAN :
          \/ \E vecList \in VecLists, list \in Lists, i \in (-1)..MaxVecs :
                \E f \in {"PlaceList", "ExtractList"} :
                    call = [fn |-> f, release |-> release,
                            vecList |-> vecList, list |-> list, i |-> i]
          \/ \E vecList \in VecLists, list \in Lists :
                call = [fn |-> "PushBackList", release |-> release,
                        vecList |-> vecList, list |-> list]
          \/ \E n \in 1..MaxVecs, gamma \in 1..2 :
                \E X \in DistOperands(n), Y \in DistOperands(n) :
                    call = [fn |-> "ColumnSubtractions", release |-> release,
                            components |-> [j \in 1..n |-> gamma],
                            X |-> X, Y |-> Y]
          \/ \E n \in 1..MaxVecs, countsColAlign \in 0..(2 * GridSize - 1),
                estsColAlign \in Procs :
                \E c \in [1..n -> {Fin(1), Fin(2)}] :
                    call = [fn |-> "FindConvergedDist", release |-> release,
                            countsColAlign |-> countsColAlign,
                            estsColStride |-> GridSize,
                            estsColAlign |-> estsColAlign,
                            lastActiveEsts |-> [j \in 1..n |-> Fin(1)],
                            activeEsts |-> c,
                            activeItCounts |-> [j \in 1..n |-> j - 1],
                            maxDiff |-> Fin(0)]
    /\ ret = NoRet

\* the operand a call may write
OperandOf(c) ==
    CASE c.fn \in {"PlaceList", "PushBackList"} -> c.vecList
      [] c.fn = "ExtractList" -> c.list
      [] c.fn = "ColumnSubtractions" -> c.Y
      [] c.fn = "FindConvergedDist" -> c.activeItCounts

\* one call ends in one of its outcomes; a raised error leaves the call
\* ended: nothing in the utilities catches it and calls again
Return(outcomes) ==
    /\ ~ret.done
    /\ \E o \in outcomes :
          ret' = [done |-> TRUE, error |-> o.error, operand |-> o.operand]
    /\ UNCHANGED call

CallPlaceList ==
    /\ call.fn = "PlaceList"
    /\ Return(PlaceList(call.release, call.vecList, call.list, call.i))

CallExtractList ==
    /\ call.fn = "ExtractList"
    /\ Return(ExtractList(call.release, call.vecList, call.list, call.i))

CallPushBackList ==
    /\ call.fn = "PushBackList"
    /\ Return(PushBackList(call.release, call.vecList, call.list))

CallColumnSubtractions ==
    /\ call.fn = "ColumnSubtractions"
    /\ Return(ColumnSubtractionsDist(call.release, call.components,
                                     call.X, call.Y))

CallFindConvergedDist ==
    /\ call.fn = "FindConvergedDist"
    /\ Return(FindConvergedDist(call.release, call.countsColAlign,
                                call.estsColStride, call.estsColAlign,
                                call.lastActiveEsts, call.activeEsts,
                                call.activeItCounts, call.maxDiff))

\* bounds of the calls of Snapshot: the grid's extents, and the frequencies
MaxGrid == 2
MaxSnapFreq == 2

\* the estimates of a call of Snapshot: the entry at position j is j
SnapEsts(n) == [j \in 1..n |-> Fin(j)]
Reverse(n) == [j \in 1..n |-> n + 1 - j]

InitSnapshot ==
    /\ \E rs \in 0..MaxGrid, is \in 0..MaxGrid, its \in 1..2, d \in BOOLEAN :
          \E pre \in {Identity(rs * is), Reverse(rs * is)} :
              \E nf \in (-1)..MaxSnapFreq, nc \in (-1)..(MaxSnapFreq + 1),
                 if \in (-1)..MaxSnapFreq, ic \in (-1)..(MaxSnapFreq + 1) :
                  call = [fn |-> "Snapshot", estimates |-> SnapEsts(rs * is),
                          preimage |-> pre, numIts |-> its, deflate |-> d,
                          realSize |-> rs, imagSize |-> is,
                          numSaveCount |-> nc, numFreq |-> nf,
                          imgSaveCount |-> ic, imgFreq |-> if]
    /\ ret = NoRet

CallSnapshot ==
    /\ call.fn = "Snapshot" /\ ~ret.done
    /\ LET r == Snapshot(call.estimates, call.preimage, call.numIts,
                         call.deflate, call.realSize, call.imagSize,
                         call.numSaveCount, call.numFreq, "numBase",
                         call.imgSaveCount, call.imgFreq, "imgBase")
       IN  ret' = [done |-> TRUE, numSaveCount |-> r.numSaveCount,
                   imgSaveCount |-> r.imgSaveCount, writes |-> r.writes]
    /\ UNCHANGED call

\* the entries of a vector handed to ReshapeIntoGrid
ReshapeVals == {Fin(0), Fin(1), Fin(2)}

InitReshape ==
    /\ \E rs \in 1..MaxGrid, is \in 1..MaxGrid :
          \E x \in [1..(rs * is) -> ReshapeVals] \cup {SnapEsts(rs * is)} :
              \E f \in {"ReshapeIntoGrid", "ReshapeIntoGridDist"} :
                  call = [fn |-> f, realSize |-> rs, imagSize |-> is, x |-> x]
    /\ ret = NoRet

ReturnGrid(outcomes) ==
    /\ ~ret.done
    /\ \E o \in outcomes :
          ret' = [done |-> TRUE, error |-> o.error, X |-> o.X,
                  copies |-> o.copies]
    /\ UNCHANGED call

CallReshapeIntoGrid ==
    /\ call.fn = "ReshapeIntoGrid"
    /\ ReturnGrid(ReshapeIntoGridSeq(call.realSize, call.imagSize, call.x))

CallReshapeIntoGridDist ==
    /\ call.fn = "ReshapeIntoGridDist"
    /\ ReturnGrid(ReshapeIntoGridDist(call.realSize, call.imagSize, call.x))

InitSnapshotOperands ==
    /\ \E rs \in 0..MaxGrid, is \in 0..MaxGrid, d \in BOOLEAN :
          \E pre \in {Identity(rs * is), Reverse(rs * is)},
             variant \in {"Matrix", "DistMatrix"}, colorMap \in ColorMaps,
             nf \in 0..1, nc \in 0..1, if \in 0..1, ic \in 0..1 :
              call = [fn |-> "Snapshot", variant |-> variant,
                      estimates |-> SnapEsts(rs * is), preimage |-> pre,
                      colorMap |-> colorMap, deflate |-> d,
                      realSize |-> rs, imagSize |-> is,
                      numSaveCount |-> nc, numFreq |-> nf,
                      imgSaveCount |-> ic, imgFreq |-> if]
    /\ ret = NoRet

CallSnapshotOperands ==
    /\ call.fn = "Snapshot" /\ ~ret.done
    /\ \E o \in SnapshotOutcomes(call.variant,
                                 [estimates |-> call.estimates,
                                  preimage |-> call.preimage,
                                  colorMap |-> call.colorMap],
                                 call.deflate, call.realSize, call.imagSize,
                                 SaveDue(call.numFreq, call.numSaveCount),
                                 SaveDue(call.imgFreq, call.imgSaveCount)) :
          ret' = [done |-> TRUE, error |-> o.error,
                  estimates |-> o.mem.estimates, preimage |-> o.mem.preimage,
                  colorMap |-> o.mem.colorMap, maps |-> o.maps]
    /\ UNCHANGED call

(***************************************************************************)
(* The save counters over the outer iterations of a run: both start at 0   *)
(* and are advanced by one in every outer iteration before Snapshot is     *)
(* called.  The loop is not part of the utilities; it is modelled from the *)
(* algorithm of the specification (section 4.1, step 7, and 4.5).          *)
(***************************************************************************)
VARIABLES
    snap,      \* numFreq, imgFreq, maxIts, numIts, the two counters, pc
    snapLog    \* the names of the calls of Write made so far, in order

snapVars == <<snap, snapLog>>

\* bounds of the run: the frequencies and the number of outer iterations
MaxRunFreq == 5
MaxSnapIts == 12

SnapInit(nf, if, m) ==
    [numFreq |-> nf, imgFreq |-> if, maxIts |-> m, numIts |-> 0,
     numSaveCount |-> 0, imgSaveCount |-> 0, pc |-> "loop"]

InitSnapRun ==
    /\ \E nf \in (-1)..MaxRunFreq, if \in (-1)..MaxRunFreq, m \in 1..MaxSnapIts :
          snap = SnapInit(nf, if, m)
    /\ snapLog = << >>

\* one outer iteration, as far as the snapshots go
SnapIterate ==
    /\ snap.pc = "loop" /\ snap.numIts < snap.maxIts
    /\ LET its == snap.numIts + 1
           r == Snapshot(<<Fin(1)>>, <<1>>, its, FALSE, 1, 1,
                         snap.numSaveCount + 1, snap.numFreq, "numBase",
                         snap.imgSaveCount + 1, snap.imgFreq, "imgBase")
       IN  /\ snap' = [snap EXCEPT !.numIts = its,
                                   !.numSaveCount = r.numSaveCount,
                                   !.imgSaveCount = r.imgSaveCount]
           /\ snapLog' = snapLog \o
                           [k \in 1..Len(r.writes) |-> r.writes[k].name]

\* the loop is left at maxIts
SnapExit ==
    /\ snap.pc = "loop" /\ snap.numIts >= snap.maxIts
    /\ snap' = [snap EXCEPT !.pc = "done"]
    /\ UNCHANGED snapLog

(***************************************************************************)
(* The chunk loops of the driver (ChunkedTriangularPseudospectrum.cpp      *)
(* 159-252), for integer chunk counts.                                     *)
(***************************************************************************)
VARIABLES
    realSize, imagSize,    \* samples along the axes
    numReal, numImag,      \* chunks along the axes
    realChunk, imagChunk,  \* loop indices
    xSizes,                \* realChunkSize of the outer iterations made
    ySizes,                \* imagChunkSize of the inner iterations made in
                           \* the current outer iteration
    chunkCorner,           \* sample offsets (real, imaginary) of the corner
                           \* of the chunk of the last inner iteration
    itCountMap,            \* the iteration-count grid of main
    dpc                    \* "outer", "inner" or "done"

driverVars == <<realSize, imagSize, numReal, numImag, realChunk, imagChunk,
                xSizes, ySizes, chunkCorner, itCountMap, dpc>>

\* faulty variant: the leftover is what remains after all the chunks
Leftover_Remainder(size, num, block) == size - num * block

\* lines 161-162: Int = Int / Real, truncated
Block(size, num) == size \div num

\* lines 163-164
Leftover(size, num, block) == size - (num - 1) * block

\* lines 170-171 and 179-180
ChunkSize(chunk, num, block, leftover) ==
    IF chunk = num - 1 THEN leftover ELSE block

\* faulty variant: the corner is that of the next chunk
ChunkOffset_Next(chunk, block) == (chunk + 1) * block

\* lines 183-184: chunkCorner - corner in units of xStep and yStep
ChunkOffset(chunk, block) == chunk * block

\* the grid TriangularPseudospectrum returns for a chunk: realChunkSize x
\* imagChunkSize, the entry at (i, j) being the count of the chunk's sample
\* (i, j), kept symbolic
ChunkCounts(rChunk, iChunk, rSize, iSize) ==
    [i \in 1..rSize |-> [j \in 1..iSize |-> <<rChunk, iChunk, i, j>>]]

xBlock == Block(realSize, numReal)
yBlock == Block(imagSize, numImag)
xLeftover == Leftover(realSize, numReal, xBlock)
yLeftover == Leftover(imagSize, numImag, yBlock)

InitDriver ==
    /\ realSize \in 1..MaxSamples
    /\ imagSize \in 1..MaxSamples
    /\ numReal \in 1..realSize
    /\ numImag \in 1..imagSize
    /\ realChunk = 0
    /\ imagChunk = 0
    /\ xSizes = << >>
    /\ ySizes = << >>
    /\ chunkCorner = <<0, 0>>
    /\ itCountMap = << >>
    /\ dpc = "outer"

\* line 168, loop entered: lines 170-173
OuterEnter ==
    /\ dpc = "outer" /\ realChunk < numReal
    /\ xSizes' = Append(xSizes, ChunkSize(realChunk, numReal, xBlock, xLeftover))
    /\ imagChunk' = 0
    /\ ySizes' = << >>
    /\ dpc' = "inner"
    /\ UNCHANGED <<realSize, imagSize, numReal, numImag, realChunk, chunkCorner,
                   itCountMap>>

\* line 168, loop left
OuterExit ==
    /\ dpc = "outer" /\ realChunk >= numReal
    /\ dpc' = "done"
    /\ UNCHANGED <<realSize, imagSize, numReal, numImag, realChunk, imagChunk,
                   xSizes, ySizes, chunkCorner, itCountMap>>

\* one iteration of the inner loop: lines 173-251; line 193 assigns the
\* grid that TriangularPseudospectrum returns to itCountMap
InnerIter ==
    /\ dpc = "inner" /\ imagChunk < numImag
    /\ ySizes' = Append(ySizes, ChunkSize(imagChunk, numImag, yBlock, yLeftover))
    /\ chunkCorner' = <<ChunkOffset(realChunk, xBlock),
                        ChunkOffset(imagChunk, yBlock)>>
    /\ itCountMap' =
          ChunkCounts(realChunk, imagChunk,
                      ChunkSize(realChunk, numReal, xBlock, xLeftover),
                      ChunkSize(imagChunk, numImag, yBlock, yLeftover))
    /\ imagChunk' = imagChunk + 1
    /\ UNCHANGED <<realSize, imagSize, numReal, numImag, realChunk, xSizes, dpc>>

\* line 173, loop left: the outer loop goes on
InnerExit ==
    /\ dpc = "inner" /\ imagChunk >= numImag
    /\ realChunk' = realChunk + 1
    /\ dpc' = "outer"
    /\ UNCHANGED <<realSize, imagSize, numReal, numImag, imagChunk, xSizes, ySizes,
                   chunkCorner, itCountMap>>

(***************************************************************************)
(* Specifications.  Each one runs one part of the model; the variables of  *)
(* the other parts stay at rest.                                           *)
(***************************************************************************)
vars == <<runVars, histVars, orderVars, pairVars, pureVars, driverVars, snapVars>>

RestRun == RunIs([RunInit(FALSE, Fin(0), 1) EXCEPT !.pc = "rest"])

RestPair ==
    /\ pairD = [RunInit(TRUE, Fin(0), 1) EXCEPT !.pc = "rest"]
    /\ pairN = [RunInit(FALSE, Fin(0), 1) EXCEPT !.pc = "rest"]

RestSnap == snap = [SnapInit(0, 0, 1) EXCEPT !.pc = "rest"] /\ snapLog = << >>

RestPure == call = [fn |-> "none"] /\ ret = NoRet

RestDriver ==
    /\ realSize = 1 /\ imagSize = 1 /\ numReal = 1 /\ numImag = 1
    /\ realChunk = 0 /\ imagChunk = 0
    /\ xSizes = << >> /\ ySizes = << >>
    /\ chunkCorner = <<0, 0>>
    /\ itCountMap = << >>
    /\ dpc = "rest"

otherThanRun == <<orderVars, pairVars, pureVars, driverVars, snapVars>>
otherThanPair == <<runVars, histVars, orderVars, pureVars, driverVars, snapVars>>
otherThanPure == <<runVars, histVars, orderVars, pairVars, driverVars, snapVars>>
otherThanSnap == <<runVars, histVars, orderVars, pairVars, pureVars, driverVars>>
otherThanDriver == <<runVars, histVars, orderVars, pairVars, pureVars, snapVars>>

\* a chunk run
Init == InitRun /\ InitHist /\ RestPair /\ RestPure /\ RestDriver /\ RestSnap
StepRun == Step /\ UNCHANGED histVars /\ UNCHANGED otherThanRun
LastStepRun == LastStep /\ UNCHANGED histVars /\ UNCHANGED otherThanRun
Next == StepRun \/ LastStepRun
Spec == Init /\ [][Next]_vars

\* a chunk run that is not suspended: the loop is sequential code without
\* blocking calls other than its own collectives, so it keeps making steps
\* as long as it has not left the loop.  Every step of Next advances numIts
\* and one is possible whenever pc = "loop"; the fairness is stated on that.
Advance == pc = "loop" /\ numIts' = numIts + 1
SpecLive == Init /\ [][Next]_vars /\ WF_numIts(Advance)

\* a deflating chunk run with the estimates that decided convergence
InitSpecOrder ==
    InitRun /\ deflate /\ InitHist /\ RestPair /\ RestPure /\ RestDriver /\ RestSnap
StepOrder ==
    OrderStep /\ UNCHANGED <<histVars, pairVars, pureVars, driverVars, snapVars>>
NextOrder == StepOrder
SpecOrder == InitSpecOrder /\ [][NextOrder]_vars

\* a chunk run with its history
StepHist == Step /\ RecordStep /\ UNCHANGED otherThanRun
LastStepHist == LastStep /\ RecordStep /\ UNCHANGED otherThanRun
NextHist == StepHist \/ LastStepHist
SpecHist == Init /\ [][NextHist]_vars

\* a deflating and a non-deflating run side by side
InitSpecPair == RestRun /\ InitHist /\ InitPair /\ RestPure /\ RestDriver /\ RestSnap
StepPair == PairStep /\ UNCHANGED otherThanPair
StepPairAlone == PairStepAlone /\ UNCHANGED otherThanPair
NextPair == StepPair \/ StepPairAlone
SpecPair == InitSpecPair /\ [][NextPair]_vars

\* CapEstimates on every input
InitSpecCap == RestRun /\ InitHist /\ RestPair /\ InitCap /\ RestDriver /\ RestSnap
CapCall == CallCapEstimates /\ UNCHANGED otherThanPure
NextCap == CapCall
SpecCap == InitSpecCap /\ [][NextCap]_vars

\* FindConverged on every input
InitSpecFind == RestRun /\ InitHist /\ RestPair /\ InitFind /\ RestDriver /\ RestSnap
FindCall == CallFindConverged /\ UNCHANGED otherThanPure
NextFind == FindCall
SpecFind == InitSpecFind /\ [][NextFind]_vars

\* estimates that are 0: single calls of FindConverged, and chunk runs in
\* which the estimate of one shift stays 0
InitSpecZero ==
    \/ InitRun /\ InitHist /\ RestPair /\ RestPure /\ RestDriver /\ RestSnap
    \/ RestRun /\ InitHist /\ RestPair /\ InitFindZero /\ RestDriver /\ RestSnap
ZeroStepHist == ZeroStep /\ RecordStep /\ UNCHANGED otherThanRun
ZeroLastStepHist == ZeroLastStep /\ RecordStep /\ UNCHANGED otherThanRun
ZeroFindCall == CallFindConverged /\ UNCHANGED otherThanPure
NextZero == ZeroStepHist \/ ZeroLastStepHist \/ ZeroFindCall
SpecZero == InitSpecZero /\ [][NextZero]_vars

\* RestoreOrdering on one array, both variants, iteration by iteration
InitSpecRestoreLoop ==
    RestRun /\ InitHist /\ RestPair /\ InitRestoreLoop /\ RestDriver /\ RestSnap
RestoreLoopEnter == RestoreEnter /\ UNCHANGED otherThanPure
RestoreLoopIterate == RestoreIterate /\ UNCHANGED otherThanPure
RestoreLoopReturn == RestoreReturn /\ UNCHANGED otherThanPure
NextRestoreLoop == RestoreLoopEnter \/ RestoreLoopIterate \/ RestoreLoopReturn
SpecRestoreLoop == InitSpecRestoreLoop /\ [][NextRestoreLoop]_vars

\* Snapshot, both variants, with the objects it touches
InitSpecSnapshotOperands ==
    RestRun /\ InitHist /\ RestPair /\ InitSnapshotOperands /\ RestDriver /\ RestSnap
SnapshotOperandsCall == CallSnapshotOperands /\ UNCHANGED otherThanPure
NextSnapshotOperands == SnapshotOperandsCall
SpecSnapshotOperands == InitSpecSnapshotOperands /\ [][NextSnapshotOperands]_vars

\* RestoreOrdering, in its four variants, on every input
InitSpecRestore == RestRun /\ InitHist /\ RestPair /\ InitRestore /\ RestDriver /\ RestSnap
RestoreCall == CallRestoreOrdering /\ UNCHANGED otherThanPure
Restore2Call == CallRestoreOrdering2 /\ UNCHANGED otherThanPure
RestoreDistCall == CallRestoreOrderingDist /\ UNCHANGED otherThanPure
Restore2DistCall == CallRestoreOrdering2Dist /\ UNCHANGED otherThanPure
NextRestore == RestoreCall \/ Restore2Call \/ RestoreDistCall \/ Restore2DistCall
SpecRestore == InitSpecRestore /\ [][NextRestore]_vars

\* the chunk loops of the driver
InitSpecDriver == RestRun /\ InitHist /\ RestPair /\ RestPure /\ InitDriver /\ RestSnap
DriverOuterEnter == OuterEnter /\ UNCHANGED otherThanDriver
DriverOuterExit == OuterExit /\ UNCHANGED otherThanDriver
DriverInnerIter == InnerIter /\ UNCHANGED otherThanDriver
DriverInnerExit == InnerExit /\ UNCHANGED otherThanDriver
NextDriver ==
    DriverOuterEnter \/ DriverOuterExit \/ DriverInnerIter \/ DriverInnerExit
SpecDriver == InitSpecDriver /\ [][NextDriver]_vars

\* ReshapeIntoGrid, sequential and distributed, on every input
InitSpecReshape == RestRun /\ InitHist /\ RestPair /\ InitReshape /\ RestDriver /\ RestSnap
ReshapeCall == CallReshapeIntoGrid /\ UNCHANGED otherThanPure
ReshapeDistCall == CallReshapeIntoGridDist /\ UNCHANGED otherThanPure
NextReshape == ReshapeCall \/ ReshapeDistCall
SpecReshape == InitSpecReshape /\ [][NextReshape]_vars

\* FixColumns, sequential and distributed, on every input
InitSpecFixColumns == RestRun /\ InitHist /\ RestPair /\ InitFixColumns /\ RestDriver /\ RestSnap
FixColumnsCall == CallFixColumns /\ UNCHANGED otherThanPure
FixColumnsDistCall == CallFixColumnsDist /\ UNCHANGED otherThanPure
NextFixColumns == FixColumnsCall \/ FixColumnsDistCall
SpecFixColumns == InitSpecFixColumns /\ [][NextFixColumns]_vars

\* the four overloads of KKT on every input
InitSpecKKT == RestRun /\ InitHist /\ RestPair /\ InitKKT /\ RestDriver /\ RestSnap
KKTCall == CallKKT /\ UNCHANGED otherThanPure
NextKKT == KKTCall
SpecKKT == InitSpecKKT /\ [][NextKKT]_vars

\* the three exchanges of the distributed sparse LeastSquares on one process
InitSpecLeastSquares == RestRun /\ InitHist /\ RestPair /\ InitLeastSquares /\ RestDriver /\ RestSnap
AssembleJCall == CallAssembleJ /\ UNCHANGED otherThanPure
AssembleDCall == CallAssembleD /\ UNCHANGED otherThanPure
ExtractXCall == CallExtractX /\ UNCHANGED otherThanPure
NextLeastSquares == AssembleJCall \/ AssembleDCall \/ ExtractXCall
SpecLeastSquares == InitSpecLeastSquares /\ [][NextLeastSquares]_vars

\* the distributed FindConverged on every grid, the processes in any order
InitSpecFindGrid == RestRun /\ InitHist /\ RestPair /\ InitFindGrid /\ RestDriver /\ RestSnap
FindGridProc == ProcFindConverged /\ UNCHANGED otherThanPure
NextFindGrid == FindGridProc
SpecFindGrid == InitSpecFindGrid /\ [][NextFindGrid]_vars

\* the list utilities and the aligned operations on every input, in a debug
\* and in a release build
InitSpecPrecond == RestRun /\ InitHist /\ RestPair /\ InitPrecond /\ RestDriver /\ RestSnap
PlaceListCall == CallPlaceList /\ UNCHANGED otherThanPure
ExtractListCall == CallExtractList /\ UNCHANGED otherThanPure
PushBackListCall == CallPushBackList /\ UNCHANGED otherThanPure
ColumnSubtractionsCall == CallColumnSubtractions /\ UNCHANGED otherThanPure
FindConvergedDistCall == CallFindConvergedDist /\ UNCHANGED otherThanPure
NextPrecond ==
    \/ PlaceListCall \/ ExtractListCall \/ PushBackListCall
    \/ ColumnSubtractionsCall \/ FindConvergedDistCall
SpecPrecond == InitSpecPrecond /\ [][NextPrecond]_vars

\* Snapshot on every input
InitSpecSnapshot ==
    RestRun /\ InitHist /\ RestPair /\ InitSnapshot /\ RestDriver /\ RestSnap
SnapshotCall == CallSnapshot /\ UNCHANGED otherThanPure
NextSnapshot == SnapshotCall
SpecSnapshot == InitSpecSnapshot /\ [][NextSnapshot]_vars

\* the save counters over a run
InitSpecSnapRun ==
    RestRun /\ InitHist /\ RestPair /\ RestPure /\ RestDriver /\ InitSnapRun
SnapRunIterate == SnapIterate /\ UNCHANGED otherThanSnap
SnapRunExit == SnapExit /\ UNCHANGED otherThanSnap
NextSnapRun == SnapRunIterate \/ SnapRunExit
SpecSnapRun == InitSpecSnapRun /\ [][NextSnapRun]_vars

(***************************************************************************)
(* Properties                                                              *)
(***************************************************************************)
RECURSIVE SumSeq(_)
SumSeq(v) == IF Len(v) = 0 THEN 0 ELSE v[1] + SumSeq(Tail(v))

Injective(f) == \A j, k \in DOMAIN f : f[j] = f[k] => j = k
Range(f) == {f[j] : j \in DOMAIN f}

\* the counter of original shift i: the counters are kept by compacted
\* position until the final restore and by original index after it
CountOf(i) ==
    IF pc = "done" /\ deflate THEN itCounts[i] ELSE itCounts[PosOf(preimage, i)]

\* C1: in every state of a chunk run, the end included, no iteration count
\* exceeds maxIts (nor the number of outer steps made), for every maxIts,
\* tolerance and estimates, with and without deflation.
C1_ItCountsBounded ==
    /\ numIts <= maxIts
    /\ \A j \in Shifts : itCounts[j] <= numIts
    /\ pc = "done" => \A i \in Shifts : itCounts[i] <= maxIts

\* a deflating run has ended with one shift exhausted (count = maxIts) and
\* another one converged earlier
C1_Witness ==
    /\ pc = "done" /\ deflate /\ maxIts > 1
    /\ \E i, k \in Shifts : itCounts[i] = maxIts /\ itCounts[k] < maxIts

\* C2: when both runs on the same estimates have ended, the deflating and
\* the non-deflating run report the same estimates and the same iteration
\* counts, in original shift order.
C2_DeflationTransparency ==
    (pairD.pc = "done" /\ pairN.pc = "done") =>
        /\ pairD.invNorms = pairN.invNorms
        /\ pairD.itCounts = pairN.itCounts

\* C3: the preimage is injective in every state of a chunk run and a
\* permutation of all shift indices at completion, and the final restore
\* has put the estimate of every compacted position j at original position
\* preimage[j].
C3_PreimagePermutation ==
    /\ Injective(preimage)
    /\ pc = "done" =>
          /\ Range(preimage) = Shifts
          /\ \A j \in Shifts : invNorms[preimage[j]] = estimates[j]

\* a deflating run has ended with a preimage that is not the identity, and
\* the restore has moved an estimate
C3_Witness ==
    /\ pc = "done" /\ deflate
    /\ \E j \in Shifts : preimage[j] # j /\ invNorms[j] # estimates[j]

\* C4: after CapEstimates no entry is NaN or infinite, every entry is at
\* most normCap, and NaN and entries >= normCap have become exactly normCap.
C4_CappedFinite ==
    ret.done =>
        \A j \in 1..Len(call.activeEsts) :
            LET in == call.activeEsts[j]
                out == ret.activeEsts[j]
            IN  /\ ~IsNan(out) /\ ~IsInf(out)
                /\ Leq(out, NormCapV)
                /\ (IsNan(in) \/ Geq(in, NormCapV)) => out = NormCapV

\* what C5 says of one shift: converged iff currEst >= normCap, or else
\* |currEst| > 0 and |lastEst - currEst| / |currEst| <= tol.  For finite
\* values the quotient test is |lastEst - currEst| <= tol * |currEst| in
\* integers; a NaN or -infinity estimate is never converged, nor is a finite
\* one whose last estimate is infinite.
ConvergedSpec(lastEst, currEst, t) ==
    \/ currEst.k = "pinf"
    \/ /\ IsFinite(currEst)
       /\ currEst.n * NormCapV.d >= NormCap * currEst.d
    \/ /\ IsFinite(currEst) /\ IsFinite(lastEst)
       /\ currEst.n # 0
       /\ AbsInt(lastEst.n * currEst.d - currEst.n * lastEst.d) * t.d
             <= t.n * AbsInt(currEst.n) * lastEst.d

\* C5: FindConverged returns one flag per active shift, 1 exactly for the
\* shifts that are converged in the sense above and 0 for the others.
C5_FlagsExact ==
    ret.done =>
        /\ Len(ret.activeConverged) = Len(call.activeEsts)
        /\ \A j \in 1..Len(call.activeEsts) :
              ret.activeConverged[j] =
                 IF ConvergedSpec(call.lastActiveEsts[j], call.activeEsts[j],
                                  call.maxDiff)
                 THEN 1 ELSE 0

\* a call has flagged one shift converged by its relative change, at the
\* tolerance exactly, and another one not converged
C5_Witness ==
    /\ ret.done /\ Len(call.activeEsts) = 2
    /\ call.maxDiff = Rat(1, 2)
    /\ call.lastActiveEsts[1] = Fin(1) /\ call.activeEsts[1] = Fin(2)
    /\ ret.activeConverged = <<1, 0>>

\* C6: at every outer step the counter of each checked shift grows by one
\* if the shift is found not converged and stays if it is found converged;
\* and the counter of a shift found converged at an earlier step never
\* changes again.
C6_CounterSteps ==
    [][/\ pc = "loop" =>
            \A i \in Shifts :
                /\ lastFlag'[i] = 0 => CountOf(i)' = CountOf(i) + 1
                /\ lastFlag'[i] = 1 => CountOf(i)' = CountOf(i)
       /\ \A i \in everConverged : CountOf(i)' = CountOf(i)]_vars

\* C7: a shift whose estimate has reached normCap at this or an earlier
\* step is reported converged by every check made for it.
C7_MonotonicCapping ==
    \A i \in everCapped : lastFlag[i] # 0

\* C8: RestoreOrdering with the identity mapping leaves its operands as
\* they were, in the sequential and the distributed variant, for one array
\* and for two.
C8_IdentityNoOp ==
    (ret.done /\ call.preimage = Identity(Len(call.x))) =>
        ret.x = call.x /\ ret.y = call.y

\* the distributed two-array variant has been applied with the identity to
\* arrays of the largest length that are not constant
C8_Witness ==
    /\ ret.done /\ call.fn = "RestoreOrdering2Dist"
    /\ Len(call.x) = MaxLen /\ call.preimage = Identity(MaxLen)
    /\ call.x[1] # call.x[2] /\ call.y[2] # call.y[MaxLen]

\* C9: after RestoreOrdering on two arrays the entries stay paired: with
\* an injective preimage the pair of position j is found at preimage[j],
\* and for any preimage every position holds the pair of one position of
\* the input (its own if it is not written).
C9_PairsKept ==
    (ret.done /\ call.fn \in {"RestoreOrdering2", "RestoreOrdering2Dist"}) =>
        /\ Injective(call.preimage) =>
              \A j \in 1..Len(call.x) :
                  /\ ret.x[call.preimage[j]] = call.x[j]
                  /\ ret.y[call.preimage[j]] = call.y[j]
        /\ \A q \in 1..Len(call.x) :
              \E j \in 1..Len(call.x) :
                  /\ ret.x[q] = call.x[j] /\ ret.y[q] = call.y[j]
                  /\ \/ call.preimage[j] = q
                     \/ j = q /\ q \notin Range(call.preimage)

\* two arrays that differ from each other have been reordered by a
\* permutation with a cycle of length three
C9_Witness ==
    /\ ret.done /\ call.fn = "RestoreOrdering2"
    /\ call.preimage = <<2, 3, 1>>
    /\ call.x = <<1, 0, 0>> /\ call.y = <<0, 0, 1>>
    /\ ret.x = <<0, 1, 0>> /\ ret.y = <<1, 0, 0>>

\* C10: along both axes the chunk sizes are floor(N/c) for every chunk but
\* the last and N - (c-1)*floor(N/c) for the last, and they sum to N.
C10_ChunkTotals ==
    /\ \A k \in 1..Len(xSizes) :
          xSizes[k] = IF k = numReal
                      THEN realSize - (numReal - 1) * (realSize \div numReal)
                      ELSE realSize \div numReal
    /\ \A k \in 1..Len(ySizes) :
          ySizes[k] = IF k = numImag
                      THEN imagSize - (numImag - 1) * (imagSize \div numImag)
                      ELSE imagSize \div numImag
    /\ dpc = "done" => Len(xSizes) = numReal /\ SumSeq(xSizes) = realSize
    /\ (dpc = "inner" /\ imagChunk = numImag) =>
          Len(ySizes) = numImag /\ SumSeq(ySizes) = imagSize

\* the driver has finished a grid whose real axis does not divide evenly
C10_Witness ==
    /\ dpc = "done"
    /\ numReal > 1 /\ realSize % numReal # 0
    /\ xSizes[numReal] > xSizes[1]

\* C11: along both axes the chunk of an inner iteration starts at sample
\* offset k*floor(N/c), ends where chunk k+1 starts, or at N if it is the
\* last one, has at least one sample, and has exactly floor(N/c) samples
\* unless it is the last one, which has at least as many.
C11_ChunksContiguous ==
    (dpc = "inner" /\ imagChunk >= 1) =>
        LET kx == realChunk
            ky == imagChunk - 1
            bx == realSize \div numReal
            by == imagSize \div numImag
            sx == xSizes[kx + 1]
            sy == ySizes[ky + 1]
        IN  /\ chunkCorner = <<kx * bx, ky * by>>
            /\ chunkCorner[1] + sx = IF kx = numReal - 1 THEN realSize
                                                         ELSE (kx + 1) * bx
            /\ chunkCorner[2] + sy = IF ky = numImag - 1 THEN imagSize
                                                         ELSE (ky + 1) * by
            /\ sx >= 1 /\ sy >= 1
            /\ sx >= bx /\ sy >= by
            /\ kx < numReal - 1 => sx = bx
            /\ ky < numImag - 1 => sy = by

\* the last chunk of a grid of several chunks per axis, neither axis
\* dividing evenly
C11_Witness ==
    /\ dpc = "inner" /\ numReal > 1 /\ numImag > 1
    /\ realChunk = numReal - 1 /\ imagChunk = numImag
    /\ realSize % numReal # 0 /\ imagSize % numImag # 0
    /\ chunkCorner[1] > 0 /\ chunkCorner[2] > 0

\* the calls of Write of a call of Snapshot whose name starts with base
WritesOf(base) == {k \in 1..Len(ret.writes) : ret.writes[k].name[1] = base}

\* C12: a call of Snapshot with a frequency <= 0 for a channel makes no
\* call of Write for that channel and returns that channel's counter as
\* it was, whatever the counter's value and whatever the other channel does.
C12_DisabledChannel ==
    (ret.done /\ call.fn = "Snapshot") =>
        /\ call.numFreq <= 0 =>
              WritesOf("numBase") = {} /\ ret.numSaveCount = call.numSaveCount
        /\ call.imgFreq <= 0 =>
              WritesOf("imgBase") = {} /\ ret.imgSaveCount = call.imgSaveCount

\* a call on a non-empty grid whose numeric channel is disabled with its
\* counter past the frequency, while the image channel saves
C12_Witness ==
    /\ ret.done /\ call.fn = "Snapshot"
    /\ call.realSize = 2 /\ call.imagSize = 2
    /\ call.numFreq = 0 /\ call.numSaveCount = 1
    /\ call.imgFreq = 1 /\ call.imgSaveCount = 1
    /\ WritesOf("imgBase") # {} /\ ret.imgSaveCount = 0

\* what C13 says of one channel of a call on a non-empty grid: the channel
\* writes iff its frequency is > 0 and its counter has reached it; then its
\* grid is written under the name base-numIts, every name of the channel
\* starts with base-numIts, and the counter is 0 on return; otherwise the
\* counter is unchanged
ChannelFires(base, freq, count, countOnReturn) ==
    LET fires == freq > 0 /\ count >= freq
    IN  /\ (WritesOf(base) # {}) <=> fires
        /\ fires =>
              /\ \E k \in WritesOf(base) :
                    ret.writes[k].name = <<base, "-", call.numIts>>
              /\ \A k \in WritesOf(base) :
                    SubSeq(ret.writes[k].name, 1, 3) = <<base, "-", call.numIts>>
              /\ countOnReturn = 0
        /\ ~fires => countOnReturn = count

C14_AtMostOnePerChannel ==
    (ret.done /\ call.fn = "Snapshot") =>
        /\ Cardinality(WritesOf("numBase")) <= 1
        /\ Cardinality(WritesOf("imgBase")) <= 1

\* the iterations whose numeric snapshot has been written, and their number
NumSnapAt ==
    {snapLog[k][3] : k \in {h \in 1..Len(snapLog) : snapLog[h][1] = "numBase"}}
NumSnapCount ==
    Cardinality({h \in 1..Len(snapLog) : snapLog[h][1] = "numBase"})

\* C15: with a numeric frequency f > 0, after N outer iterations the
\* numeric snapshots written are those of the iterations f, 2f, ... up to
\* N, one each: floor(N/f) of them.
C15_SnapshotCount ==
    snap.numFreq > 0 =>
        /\ NumSnapAt = {k * snap.numFreq : k \in 1..(snap.numIts \div snap.numFreq)}
        /\ NumSnapCount = snap.numIts \div snap.numFreq

\* a run of 12 iterations with frequency 5 has ended with the numeric
\* snapshots of iterations 5 and 10
C15_Witness ==
    /\ snap.pc = "done" /\ snap.numFreq = 5 /\ snap.maxIts = 12
    /\ snap.numIts = 12
    /\ NumSnapAt = {5, 10} /\ NumSnapCount = 2

\* the state in which a run may end: at most maxIts steps were made, and if
\* fewer were made no shift is active any more: all have been deflated or,
\* without deflation, all have passed the convergence test of the last step
TerminalOk ==
    /\ numIts <= maxIts
    /\ \/ numIts = maxIts
       \/ IF deflate
          THEN numDone = NumShifts
          ELSE \A j \in Shifts :
                  ConvergedSpec(lastActiveEsts[j], estimates[j], tol)

\* C16: every chunk run ends, and it ends only in a state as above.
C16_Terminates ==
    /\ <>(pc = "done")
    /\ [](pc = "done" => TerminalOk)
    /\ [](numIts <= maxIts)

\* a run without deflation has ended before maxIts with every shift
\* converged, after more than one step
C16_Witness ==
    /\ pc = "done" /\ ~deflate
    /\ numIts > 1 /\ numIts < maxIts

\* C17: in a deflating run, a shift whose convergence a step has decided
\* is outside the active set after that step, and the estimate recorded at
\* its position is the one of that step; the estimate reported for it at
\* the end is that estimate.
C17_RecordedBeforeDeflation ==
    deflate =>
        \A i \in Shifts :
            decidedEst[i] # NoEst =>
                IF pc = "done"
                THEN invNorms[i] = decidedEst[i]
                ELSE /\ PosOf(preimage, i) > NumShifts - numDone
                     /\ estimates[PosOf(preimage, i)] = decidedEst[i]

\* a deflating run has ended after its shifts were decided at different
\* steps with different estimates, the first shift first
C17_Witness ==
    /\ pc = "done" /\ deflate /\ numIts >= 2
    /\ preimage # Identity(NumShifts)
    /\ \A i \in Shifts : decidedEst[i] # NoEst
    /\ decidedEst[1] # decidedEst[2]
    /\ itCounts[1] < itCounts[2]

\* C18: when the driver has processed all chunks, the iteration-count grid
\* of main holds, for every chunk, the chunk's result at the chunk's
\* offset: the count of sample (i, j) of chunk (kx, ky) is at row
\* kx*floor(N/c) + i and column ky*floor(M/d) + j.
C18_GlobalGrids ==
    dpc = "done" =>
        \A kx \in 0..(numReal - 1), ky \in 0..(numImag - 1) :
            \A i \in 1..ChunkSize(kx, numReal, xBlock, xLeftover),
               j \in 1..ChunkSize(ky, numImag, yBlock, yLeftover) :
                LET r == kx * xBlock + i
                    c == ky * yBlock + j
                IN  /\ r \in DOMAIN itCountMap
                    /\ c \in DOMAIN itCountMap[r]
                    /\ itCountMap[r][c] = <<kx, ky, i, j>>


\* the structural precondition a call violates, if any
Violation(c) ==
    CASE c.fn = "PlaceList" ->
            \/ SizesDiffer(c.vecList, c.list)
            \/ \E k \in 1..Len(c.vecList) :
                  c.i < 0 \/ c.i >= Len(c.vecList[k])
      [] c.fn = "ExtractList" ->
            \E k \in 1..Len(c.vecList) : c.i < 0 \/ c.i >= Len(c.vecList[k])
      [] c.fn = "PushBackList" -> SizesDiffer(c.vecList, c.list)
      [] c.fn = "ColumnSubtractions" -> NotAligned(c.X, c.Y)
      [] c.fn = "FindConvergedDist" ->
            CountsNotAligned(c.countsColAlign, c.estsColStride, c.estsColAlign)
      [] OTHER -> FALSE

LogicErrors ==
    {"Invalid index", "List sizes do not match",
     "X and Y should have been aligned", "Invalid column alignment"}

\* C19: every call of a list utility or of an aligned operation that
\* violates a structural precondition (list sizes that differ, an index out
\* of range, operands that are not aligned) ends in a logic error, and its
\* operand is then as it was before the call.
C19_PreconditionsReported ==
    (ret.done /\ Violation(call)) =>
        /\ ret.error \in LogicErrors
        /\ ret.operand = OperandOf(call)

\* C20: when a run has ended, a shift that no step found converged has a
\* reported count equal to maxIts, the loop having made maxIts steps, and its
\* reported estimate is the estimate the last step computed for it; a shift
\* that some step found converged has a reported count below maxIts.  The
\* run ends in its ordinary final state in both cases.
C20_Exhausted ==
    pc = "done" =>
        \A i \in Shifts :
            /\ i \notin everConverged =>
                  /\ numIts = maxIts
                  /\ CountOf(i) = maxIts
                  /\ invNorms[i] = estimates[PosOf(preimage, i)]
                  /\ lastFlag[i] = 0
            /\ i \in everConverged => CountOf(i) < maxIts

\* a deflating run of several steps has ended with one shift exhausted, at
\* a position it was moved to, and another one converged
C20_Witness ==
    /\ pc = "done" /\ deflate /\ maxIts > 1
    /\ \E i, k \in Shifts :
          /\ i \notin everConverged /\ CountOf(i) = maxIts
          /\ PosOf(preimage, i) # i
          /\ k \in everConverged /\ CountOf(k) < maxIts

\* C21: every call of ReshapeIntoGrid, sequential or distributed, with
\* realSize >= 1 and imagSize >= 1 returns without a fault; each of its
\* copies reads inside the vector and writes inside the realSize x imagSize
\* grid, every cell is written exactly once and every entry of the vector
\* is copied exactly once.
C21_ReshapeBijection ==
    (ret.done /\ call.fn \in {"ReshapeIntoGrid", "ReshapeIntoGridDist"}) =>
        /\ ret.error = "none"
        /\ \A a \in ret.copies :
              /\ InGrid(a, call.realSize, call.imagSize)
              /\ InVector(a, call.realSize, call.imagSize)
        /\ \A i \in 0..(call.realSize - 1), j \in 0..(call.imagSize - 1) :
              Cardinality({a \in ret.copies : a.i = i /\ a.j = j}) = 1
        /\ \A k \in 0..(call.realSize * call.imagSize - 1) :
              Cardinality({a \in ret.copies : a.src = k}) = 1

\* C26: the grid a call of the distributed ReshapeIntoGrid returns is the
\* grid the sequential variant makes of the same vector and sizes: cell
\* (i, j) holds entry i + j*realSize of the vector.
C26_ReshapeVariantsAgree ==
    (ret.done /\ call.fn = "ReshapeIntoGridDist") =>
        /\ ret.error = "none"
        /\ ret.X = ReshapeIntoGrid(call.realSize, call.imagSize, call.x)
        /\ ReshapeIntoGridSeq(call.realSize, call.imagSize, call.x)
              = {[error |-> "none", X |-> ret.X,
                  copies |-> ReshapeCopies(call.realSize, call.imagSize)]}

\* the estimate of original shift s among the estimates handed to Snapshot:
\* with deflation it stands at the position the preimage maps to s
EstimateOf(c, s) ==
    IF c.deflate THEN c.estimates[PosOf(c.preimage, s)] ELSE c.estimates[s]

\* C22: in every call of Snapshot, the grid of a write of the numeric
\* channel holds in cell (i, j) the estimate of original shift i + j*realSize
\* as it was handed in, the grid of a write of the image channel holds the
\* logarithm of that estimate, and the numeric write precedes the image
\* writes, also when both channels fire in the same call.
C22_LogForImageOnly ==
    (ret.done /\ call.fn = "Snapshot") =>
        /\ \A k \in 1..Len(ret.writes) :
              \A i \in 1..call.realSize, j \in 1..call.imagSize :
                  LET e == EstimateOf(call, (i - 1) + (j - 1) * call.realSize + 1)
                  IN  ret.writes[k].grid[i][j] =
                          IF k \in WritesOf("numBase") THEN e ELSE LogV(e)
        /\ \A k \in WritesOf("numBase"), l \in WritesOf("imgBase") : k < l

\* both channels have fired in one call with deflation active, on a grid of
\* two cells whose estimates stood in reverse order
C22_Witness ==
    /\ ret.done /\ call.fn = "Snapshot" /\ call.deflate
    /\ call.realSize = 2 /\ call.imagSize = 1
    /\ call.preimage = Reverse(2)
    /\ WritesOf("numBase") # {} /\ WritesOf("imgBase") # {}
    /\ ret.writes[1].grid[1][1] = Fin(2)
    /\ ret.writes[2].grid[1][1] = LogV(Fin(2))

IsFiniteColumn(x) == \A i \in 1..Len(x) : IsFinite(x[i])

C24_KKTUnfinished ==
    (ret.done /\ call.fn = "KKT") =>
        /\ ret.error = "This routine is not yet finished"
        /\ ret.J = call.J

\* the dense overload has been called with operands that are not empty and
\* a J that holds entries, and has ended
C24_Witness ==
    /\ ret.done /\ call.fn = "KKT" /\ call.overload = "dense"
    /\ call.m > 0 /\ call.n > 0 /\ call.k > 0
    /\ call.J = <<1, 1>> /\ ret.error # "none"

\* C25: in each of the three exchanges of the distributed sparse
\* LeastSquares, on every process and for every destination, the number of
\* entries packed for the destination is the send count announced for it.
C25_PackedAsAnnounced ==
    (ret.done /\ call.fn \in {"AssembleJ", "AssembleD", "ExtractX"}) =>
        \A q \in Procs : ret.packed[q] = ret.announced[q]

\* C27: when every process of the grid has run its loop of the distributed
\* FindConverged, the counters are the counters the sequential FindConverged
\* returns for the same estimates (one more for a shift that has not
\* converged, the same for one that has), and every process that holds the
\* estimate of a shift holds the flag the sequential FindConverged returns
\* for it; while the processes run, no counter is more than one above its
\* value before the call.
C27_DistAgreesWithSequential ==
    call.fn = "FindConvergedGrid" =>
        LET seq == FindConverged(call.lastActiveEsts, call.activeEsts,
                                 call.activeItCounts, call.maxDiff)
        IN  /\ \A j \in 1..Len(call.activeEsts) :
                  /\ ret.activeItCounts[j] >= call.activeItCounts[j]
                  /\ ret.activeItCounts[j] <= call.activeItCounts[j] + 1
            /\ ret.done =>
                  /\ ret.activeItCounts = seq.activeItCounts
                  /\ \A proc \in GridProcs(call.gridHeight, call.gridWidth) :
                        \A i \in LocalShifts(proc, Len(call.activeEsts),
                                             call.gridWidth, call.estsColAlign) :
                            ret.flags[proc][i] = seq.activeConverged[i + 1]
                  /\ \A j \in 1..Len(call.activeEsts) :
                        ret.activeItCounts[j] =
                            IF seq.activeConverged[j] = 1
                            THEN call.activeItCounts[j]
                            ELSE call.activeItCounts[j] + 1

\* all processes of a 2 x 2 grid have run on two shifts, each estimate held
\* by two processes, one shift converged and one not
C27_Witness ==
    /\ call.fn = "FindConvergedGrid" /\ ret.done
    /\ call.gridHeight = 2 /\ call.gridWidth = 2
    /\ Len(call.activeEsts) = 2
    /\ call.activeEsts[1] = Fin(1) /\ call.activeEsts[2] = Fin(2)
    /\ ret.activeItCounts = <<0, 2>>
    /\ ret.flags[<<0, 0>>] = ret.flags[<<1, 0>>]

\* C28: a call of FindConverged returns flag 0 for every shift whose current
\* estimate is 0, whatever its last estimate and the tolerance, and has
\* added 1 to its counter.  In a chunk run in which the estimate of a shift
\* is 0 at every step, no step finds the shift converged, its counter is
\* the number of steps made, and when the run has ended maxIts steps have
\* been made and its reported count is maxIts.
C28_ZeroNeverConverged ==
    /\ (call.fn = "FindConverged" /\ ret.done) =>
          \A j \in 1..Len(call.activeEsts) :
              call.activeEsts[j] = Fin(0) =>
                  /\ ret.activeConverged[j] = 0
                  /\ ret.activeItCounts[j] = call.activeItCounts[j] + 1
    /\ pc \in {"loop", "done"} =>
          /\ ZeroShift \notin everConverged
          /\ numIts > 0 => lastFlag[ZeroShift] = 0
          /\ CountOf(ZeroShift) = numIts
          /\ pc = "done" => numIts = maxIts /\ CountOf(ZeroShift) = maxIts

\* a call with a zero estimate after a zero last estimate at tolerance 0,
\* next to a shift that converges
C28_Witness ==
    /\ call.fn = "FindConverged" /\ ret.done
    /\ Len(call.activeEsts) = 2
    /\ call.activeEsts[1] = Fin(0) /\ call.lastActiveEsts[1] = Fin(0)
    /\ call.maxDiff = Fin(0)
    /\ ret.activeConverged = <<0, 1>>
    /\ ret.activeItCounts = <<1, 1>>

GlobalOf(v) == IF call.fn = "RestoreOrderingDist" THEN Gather(v) ELSE v

\* C30: at every point of a call of RestoreOrdering on one array, sequential
\* or distributed, and so on return: the preimage is the one handed in; a
\* position of x that no iteration made so far has named as preimage[k]
\* holds the value it had before the call; a position that has been named
\* holds the value x had before the call at the position k of the last
\* iteration that named it, so every write stores a value of x as it was
\* before the call.  On return every iteration has been made.
C30_RestoreFrame ==
    (call.fn \in {"RestoreOrdering", "RestoreOrderingDist"} /\ ret # NoRet) =>
        LET x == GlobalOf(ret.st.x)
            made == 1..(ret.st.j - 1)
        IN  /\ GlobalOf(ret.st.preimage) = call.preimage
            /\ ret.done => ret.st.j = Len(call.preimage) + 1
            /\ \A q \in 1..Len(call.x) :
                  LET named == {k \in made : call.preimage[k] = q}
                  IN  IF named = {}
                      THEN x[q] = call.x[q]
                      ELSE x[q] = call.x[CHOOSE k \in named :
                                            \A l \in named : l <= k]

\* the distributed variant has returned from an array of three different
\* entries and a preimage that names position 1 twice and position 2 never:
\* position 2 kept its entry, position 1 holds the entry of the later write
C30_Witness ==
    /\ call.fn = "RestoreOrderingDist" /\ ret # NoRet /\ ret.done
    /\ call.preimage = <<1, 3, 1>> /\ call.x = <<1, 2, 3>>
    /\ Gather(ret.st.x) = <<3, 2, 2>>
====
